---------------------------- MODULE Spec2Model ----------------------------
(***************************************************************************)
(* A model of the TOP500 importer (library.py, __main__.py, main.py).      *)
(*                                                                         *)
(* Python values are modelled as tagged records so that values of          *)
(* different Python types can be compared: a function's result is          *)
(*   [tag |-> "False"]                  return False                       *)
(*   [tag |-> "True"]                   return True                        *)
(*   [tag |-> "data", data |-> d]       return <a dict>                    *)
(*   [tag |-> "item", item |-> q]       return <an item id>                *)
(*   [tag |-> "raise", exc |-> e]       an exception that leaves the       *)
(*                                      function                           *)
(* Strings that the code inspects character by character (identifiers,     *)
(* item ids) are sequences of one-character strings.  A Python dict with   *)
(* string keys is a function whose domain is a set of strings.             *)
(***************************************************************************)
EXTENDS Integers, Sequences, FiniteSets, TLC

VARIABLES
    cache,      \* the Redis store: key -> "absent" or the stored bytes
    last,       \* observation of the last fetcher call
    kb,         \* the knowledge base: items, their statements and labels
    log,        \* the text of the change log page
    upd,        \* observation of the last updateItem / addClaim call
    phase,      \* where a scenario of calls stands
    counter,    \* the files masscount.<mul>: partition -> content
    run,        \* the mass process: its position and local variables
    hist        \* what has happened to the counters over all runs

vars == <<cache, last, kb, log, upd, phase, counter, run, hist>>

---------------------------------------------------------------------------
(* Python results *)

PyFalse == [tag |-> "False"]

PyTrue == [tag |-> "True"]

PyData(d) == [tag |-> "data", data |-> d]

PyRaise(e) == [tag |-> "raise", exc |-> e]

---------------------------------------------------------------------------
(* Identifiers and the check re.search('^[0-9]+$', identifier) *)

Digits == {"0", "1", "2", "3", "4", "5", "6", "7", "8", "9"}

\* re.search('^[0-9]+$', s) is not None.  In Python `$` matches at the end
\* of the string and also just before a newline that ends the string.
IsNumericId(s) ==
    LET body == IF Len(s) > 0 /\ s[Len(s)] = "\n" THEN SubSeq(s, 1, Len(s) - 1) ELSE s
    IN  /\ Len(body) > 0
        /\ \A i \in 1..Len(body) : body[i] \in Digits

\* The identifiers the fetchers are called with.
Identifiers ==
    { <<"1">>, <<"2">>, <<>>, <<"a">>, <<"1", "a">>, <<"-", "1">> }

---------------------------------------------------------------------------
(* Source pages and the Record Extractor (the body of getTOP500Data /      *)
(* getTOP500SiteData after the HTTP request).  A page is what the HTML     *)
(* queries of the code see:                                                *)
(*   h1     the <h1>: absent, or its text as the list of its ' - '         *)
(*          segments, the second cut at its first ', '                     *)
(*   title  the <title>: absent, or its text as the list of its ' | '      *)
(*          segments                                                       *)
(*   main   the table.table-condensed: "none", or its rows as a sequence   *)
(*          of <<header, value>> (the joined th texts, the joined td texts)*)
(*   rank   the table.table-responsive: "none", or [headers, rows]: the    *)
(*          th texts of each tr, and the td texts of each tr after the     *)
(*          first                                                          *)
(* Texts are strings as defined below (sequences of words), taken as       *)
(* already whitespace-collapsed.                                           *)
(***************************************************************************)

NoTable == [present |-> FALSE]

MainTable(rows) == [present |-> TRUE, rows |-> rows]

RankTable(headers, rows) == [present |-> TRUE, headers |-> headers, rows |-> rows]

\* dict.update over a sequence of <<key, value>> pairs: later pairs win.
RECURSIVE DictOf(_)
DictOf(pairs) ==
    IF pairs = << >> THEN << >>
    ELSE LET n == Len(pairs)
         IN  (pairs[n][1] :> pairs[n][2]) @@ DictOf(SubSeq(pairs, 1, n - 1))

\* rowdata of one rank row: cell j goes under rankheaders[j]; a row with
\* more cells than headers raises IndexError.
RowData(headers, cells) ==
    IF Len(cells) > Len(headers) THEN PyRaise("IndexError")
    ELSE PyData(DictOf([j \in 1..Len(cells) |-> <<headers[j], cells[j]>>]))

RECURSIVE RankData(_, _)
RankData(headers, rows) ==
    IF rows = << >> THEN PyData(<< >>)
    ELSE LET n    == Len(rows)
             init == RankData(headers, SubSeq(rows, 1, n - 1))
             row  == RowData(headers, rows[n])
         IN  IF init.tag = "raise" THEN init
             ELSE IF row.tag = "raise" THEN row
             ELSE PyData(Append(init.data, row.data))

\* library.py 113-167: the parse of a system page into the data dict.
ExtractSystem(page, identifier) ==
    IF ~page.h1.present THEN PyRaise("AttributeError")
    ELSE IF ~page.main.present THEN PyRaise("AttributeError")
    ELSE IF ~page.rank.present THEN PyRaise("AttributeError")
    ELSE IF page.rank.headers = << >> THEN PyRaise("IndexError")
    ELSE
      LET title    == page.h1.segments
          name     == title[1]
          platform == IF Len(title) >= 2 THEN title[2] ELSE <<"">>
          maindata == DictOf(page.main.rows)
          rankdata == RankData(page.rank.headers[1], Tail(page.rank.rows))
      IN  IF rankdata.tag = "raise" THEN rankdata
          ELSE PyData( ("Rank" :> rankdata.data)
                       @@ maindata
                       @@ ("Title" :> name) @@ ("Platform" :> platform)
                       @@ ("ID" :> identifier) )

\* library.py 211-235: the parse of a site page into the data dict.
ExtractSite(page, identifier) ==
    IF ~page.title.present THEN PyRaise("AttributeError")
    ELSE IF ~page.main.present THEN PyRaise("AttributeError")
    ELSE PyData( DictOf(page.main.rows)
                 @@ ("Title" :> page.title.segments[1])
                 @@ ("ID" :> identifier) )

NoText == [present |-> FALSE]

Text(segments) == [present |-> TRUE, segments |-> segments]

\* A system page of the GFlops era, every summary field present.
PageGFlops ==
    [ h1    |-> Text(<< <<"Roadrunner">>, <<"BladeCenter", "QS22">> >>),
      title |-> Text(<< <<"Roadrunner">>, <<"TOP500">> >>),
      main  |-> MainTable(<< <<"Manufacturer", <<"IBM">> >>, <<"Site", <<"LANL">> >>,
                             <<"Cores", <<"128">> >>, <<"Memory", <<"64", "GB">> >>,
                             <<"Processor", <<"PowerXCell">> >>,
                             <<"Power Consumption", <<"10", "kW">> >>,
                             <<"Operating System", <<"Linux">> >> >>),
      rank  |-> RankTable(<< <<"List", "Rank", "Rmax (GFlops)", "Rpeak (GFlops)">>, << >> >>,
                          << << >>, << <<"06/2008">>, <<"1">>, <<"1026">>, <<"1375.78">> >> >>) ]

\* A system page of the TFlops era, without the Memory row.
PageTFlops ==
    [ h1    |-> Text(<< <<"Titan">> >>),
      title |-> Text(<< <<"Titan">>, <<"TOP500">> >>),
      main  |-> MainTable(<< <<"Manufacturer", <<"Cray">> >>, <<"Site", <<"ORNL">> >>,
                             <<"Cores", <<"560">> >>,
                             <<"Processor", <<"Opteron">> >>,
                             <<"Power Consumption", <<"8", "kW">> >>,
                             <<"Operating System", <<"Linux">> >> >>),
      rank  |-> RankTable(<< <<"List", "Rank", "Rmax (TFlops)", "Rpeak (TFlops)">>, << >> >>,
                          << << >>, << <<"11/2012">>, <<"1">>, <<"17.59">>, <<"27.11">> >> >>) ]

\* A page with a heading and no tables (an error page served with 200).
PageNoTables ==
    [ h1 |-> Text(<< <<"Not here">> >>), title |-> Text(<< <<"TOP500">> >>),
      main |-> NoTable, rank |-> NoTable ]

\* The pages the site answers with.  Both fetchers request
\* top500url + '/system/' + identifier (lines 104 and 207).
Pages == { PageGFlops, PageTFlops, PageNoTables }

---------------------------------------------------------------------------
(* The cache (Redis) and the Cache-Fronted Fetcher *)

Absent == [present |-> FALSE]

\* json.dumps(data) as the stored bytes, and json.loads of stored bytes.
JsonDumps(d) == [present |-> TRUE, json |-> d]

JsonLoads(b) == b.json

CacheKey(kind, identifier) == <<"top500", kind, identifier>>

CacheKeys == { CacheKey(k, i) : k \in {"sys", "loc"}, i \in Identifiers }

\* What self.redis.get(key) does in one call: answers from the store
\* ("stored"), answers bytes that are text and no JSON ("garbage"), answers
\* bytes that are no UTF-8 ("badutf8"), or raises RedisError.
GetOutcomes == {"stored", "garbage", "badutf8", "RedisError"}

\* What requests.get does in one call: raises RequestException, answers a
\* status other than 200, or answers 200 with a page.
Responses ==
    { [kind |-> "RequestException"], [kind |-> "status", code |-> 404] }
    \cup { [kind |-> "status", code |-> 200, page |-> p] : p \in Pages }

\* What self.redis.set(key, bytes) does in one call.
SetOutcomes == {"ok", "RedisError"}

\* The result of a fetcher call: what it returns or raises, the cache after
\* it, and the number of requests, cache reads and cache writes it made.
FetchResult(result, c, net, reads, writes) ==
    [result |-> result, cache |-> c, net |-> net, reads |-> reads, writes |-> writes]

\* The live fetch leaving an entry in the cache when the site answers with
\* a status other than 200.
LiveFetchSystem_StoresNotFound(c, identifier, resp, set) ==
    IF resp.kind = "RequestException" THEN FetchResult(PyFalse, c, 1, 1, 0)
    ELSE IF resp.code # 200
         THEN FetchResult(PyFalse,
                          [c EXCEPT ![CacheKey("sys", identifier)] = JsonDumps(("ID" :> identifier))],
                          1, 1, 1)
    ELSE IF ExtractSystem(resp.page, identifier).tag = "raise"
         THEN FetchResult(ExtractSystem(resp.page, identifier), c, 1, 1, 0)
    ELSE IF set = "ok"
         THEN FetchResult(ExtractSystem(resp.page, identifier),
                          [c EXCEPT ![CacheKey("sys", identifier)] =
                                        JsonDumps(ExtractSystem(resp.page, identifier).data)],
                          1, 1, 1)
    ELSE FetchResult(ExtractSystem(resp.page, identifier), c, 1, 1, 1)

\* library.py 102-176: the except branch of getTOP500Data (the live fetch).
LiveFetchSystem(c, identifier, resp, set) ==
    IF resp.kind = "RequestException" THEN FetchResult(PyFalse, c, 1, 1, 0)
    ELSE IF resp.code # 200 THEN FetchResult(PyFalse, c, 1, 1, 0)
    ELSE LET ex == ExtractSystem(resp.page, identifier)
         IN  IF ex.tag = "raise" THEN FetchResult(ex, c, 1, 1, 0)
             ELSE IF set = "ok"
                  THEN FetchResult(ex, [c EXCEPT ![CacheKey("sys", identifier)] = JsonDumps(ex.data)], 1, 1, 1)
                  ELSE FetchResult(ex, c, 1, 1, 1)

\* LiveFetchSite with a failed cache write surfacing to the caller.
LiveFetchSite_WriteRaises(c, identifier, resp, set) ==
    IF resp.kind = "RequestException" THEN FetchResult(PyRaise("RequestException"), c, 1, 1, 0)
    ELSE IF resp.code # 200 THEN FetchResult(PyFalse, c, 1, 1, 0)
    ELSE LET ex == ExtractSite(resp.page, identifier)
         IN  IF ex.tag = "raise" THEN FetchResult(ex, c, 1, 1, 0)
             ELSE IF set = "ok"
                  THEN FetchResult(ex, [c EXCEPT ![CacheKey("loc", identifier)] = JsonDumps(ex.data)], 1, 1, 1)
                  ELSE FetchResult(PyRaise("RedisError"), c, 1, 1, 1)

\* getTOP500Data without the identifier check of lines 87-94.
getTOP500Data_NoIdCheck(c, identifier, get, resp, set) ==
    LET stored == c[CacheKey("sys", identifier)]
    IN  CASE get = "RedisError" -> LiveFetchSystem(c, identifier, resp, set)
          [] get = "garbage"    -> LiveFetchSystem(c, identifier, resp, set)
          [] get = "badutf8"    -> FetchResult(PyRaise("UnicodeDecodeError"), c, 0, 1, 0)
          [] OTHER ->
               IF ~stored.present
               THEN LiveFetchSystem(c, identifier, resp, set)
               ELSE FetchResult(PyData(JsonLoads(stored)), c, 0, 1, 0)

\* getTOP500Data that never looks into the cache before the live fetch.
getTOP500Data_AlwaysLive(c, identifier, get, resp, set) ==
    IF ~IsNumericId(identifier) THEN FetchResult(PyFalse, c, 0, 0, 0)
    ELSE LiveFetchSystem(c, identifier, resp, set)

\* library.py 71-176: getTOP500Data(identifier).
getTOP500Data(c, identifier, get, resp, set) ==
    IF ~IsNumericId(identifier) THEN FetchResult(PyFalse, c, 0, 0, 0)
    ELSE LET stored == c[CacheKey("sys", identifier)]
         IN  CASE get = "RedisError" -> LiveFetchSystem(c, identifier, resp, set)
               [] get = "garbage"    -> LiveFetchSystem(c, identifier, resp, set)
               [] get = "badutf8"    -> FetchResult(PyRaise("UnicodeDecodeError"), c, 0, 1, 0)
               [] OTHER ->
                    IF ~stored.present
                    THEN LiveFetchSystem(c, identifier, resp, set)     \* json.loads(None): TypeError
                    ELSE FetchResult(PyData(JsonLoads(stored)), c, 0, 1, 0)

\* library.py 205-242: the except branch of getTOP500SiteData.
LiveFetchSite(c, identifier, resp, set) ==
    IF resp.kind = "RequestException" THEN FetchResult(PyRaise("RequestException"), c, 1, 1, 0)
    ELSE IF resp.code # 200 THEN FetchResult(PyFalse, c, 1, 1, 0)
    ELSE LET ex == ExtractSite(resp.page, identifier)
         IN  IF ex.tag = "raise" THEN FetchResult(ex, c, 1, 1, 0)
             ELSE IF set = "ok"
                  THEN FetchResult(ex, [c EXCEPT ![CacheKey("loc", identifier)] = JsonDumps(ex.data)], 1, 1, 1)
                  ELSE FetchResult(ex, c, 1, 1, 1)

\* library.py 178-242: getTOP500SiteData(identifier).
getTOP500SiteData(c, identifier, get, resp, set) ==
    IF ~IsNumericId(identifier) THEN FetchResult(PyFalse, c, 0, 0, 0)
    ELSE LET stored == c[CacheKey("loc", identifier)]
         IN  CASE get = "RedisError" -> LiveFetchSite(c, identifier, resp, set)
               [] get = "garbage"    -> LiveFetchSite(c, identifier, resp, set)
               [] get = "badutf8"    -> FetchResult(PyRaise("UnicodeDecodeError"), c, 0, 1, 0)
               [] OTHER ->
                    IF ~stored.present
                    THEN FetchResult(PyRaise("AttributeError"), c, 0, 1, 0)  \* None.decode
                    ELSE FetchResult(PyData(JsonLoads(stored)), c, 0, 1, 0)

---------------------------------------------------------------------------
(* The fetcher on its own: any sequence of fetchSystem / fetchSite calls.  *)

\* What is observed of one fetcher call: the call, how the cache answered
\* its read, what it returned or raised, the accesses it made, (before)
\* what the call just before it returned when that was the same function
\* on the same identifier, (held) whether the cache then held that as its
\* entry when the call started, (kept) whether the call left the cache
\* as it was, (answer) what the site answered to its request, without the
\* page, and (set) what its cache write did.
Answer(resp) ==
    IF resp.kind = "status" THEN [kind |-> "status", code |-> resp.code]
    ELSE [kind |-> resp.kind]

Observation(op, identifier, get, resp, set, r) ==
    [op |-> op, id |-> identifier, get |-> get, result |-> r.result,
     net |-> r.net, reads |-> r.reads, writes |-> r.writes,
     answer |-> IF r.net = 0 THEN [kind |-> "none"] ELSE Answer(resp),
     set |-> IF r.writes = 0 THEN "none" ELSE set,
     before |-> IF last.op = op /\ last.id = identifier
                THEN last.result ELSE [tag |-> "none"],
     held |-> /\ last.op = op /\ last.id = identifier /\ last.result.tag = "data"
              /\ cache[CacheKey(op, identifier)] = JsonDumps(last.result.data),
     kept |-> r.cache = cache]

NoCall ==
    [op |-> "none", id |-> << >>, get |-> "stored", result |-> PyFalse,
     net |-> 0, reads |-> 0, writes |-> 0,
     answer |-> [kind |-> "none"], set |-> "none",
     before |-> [tag |-> "none"], held |-> FALSE, kept |-> TRUE]

InitFetch ==
    /\ cache = [k \in CacheKeys |-> Absent]
    /\ last = NoCall
    /\ kb = [claims |-> << >>, labels |-> << >>, created |-> 0]
    /\ log = << >>
    /\ upd = [op |-> "none"]
    /\ phase = "fetch"
    /\ counter = << >>
    /\ run = [pc |-> "none"]
    /\ hist = << >>

\* The outcomes one call can have: an outcome of the request or of the cache
\* write is drawn only when the call makes the request, an outcome of the
\* cache read only when it reads.
NoResponse == [kind |-> "RequestException"]

Outcome(get, resp, set, r) == <<get, resp, IF r.writes = 0 THEN "ok" ELSE set, r>>

FetchOutcomes(op, identifier) ==
    LET call(get, resp, set) ==
            IF op = "sys" THEN getTOP500Data(cache, identifier, get, resp, set)
            ELSE getTOP500SiteData(cache, identifier, get, resp, set)
        first == call("stored", NoResponse, "ok")
        gets == IF first.reads = 0 THEN {"stored"} ELSE GetOutcomes
    IN  UNION { LET r0 == call(get, NoResponse, "ok")
                IN  IF r0.net = 0 THEN { <<get, NoResponse, "ok", r0>> }
                    ELSE { Outcome(get, resp, set, call(get, resp, set)) : resp \in Responses, set \in SetOutcomes }
                : get \in gets }

FetchSystem ==
    \E identifier \in Identifiers :
        \E o \in FetchOutcomes("sys", identifier) :
            /\ cache' = o[4].cache
            /\ last' = Observation("sys", identifier, o[1], o[2], o[3], o[4])
            /\ UNCHANGED <<kb, log, upd, phase, counter, run, hist>>

FetchSite ==
    \E identifier \in Identifiers :
        \E o \in FetchOutcomes("loc", identifier) :
            /\ cache' = o[4].cache
            /\ last' = Observation("loc", identifier, o[1], o[2], o[3], o[4])
            /\ UNCHANGED <<kb, log, upd, phase, counter, run, hist>>

NextFetch == FetchSite \/ FetchSystem

SpecFetch == InitFetch /\ [][NextFetch]_vars

---------------------------------------------------------------------------
(* The cache under the fetchers: what its entries hold and which calls     *)
(* wrote them.                                                             *)

\* A system page whose summary table has a row labelled ID of its own.
PageOwnID ==
    [PageGFlops EXCEPT !.main = MainTable(<< <<"ID", <<"9">> >> >> \o PageGFlops.main.rows)]

CachePages == { PageGFlops, PageNoTables, PageOwnID }

CacheResponses ==
    { [kind |-> "RequestException"], [kind |-> "status", code |-> 404] }
    \cup { [kind |-> "status", code |-> 200, page |-> p] : p \in CachePages }

CacheIds == { <<"1">>, <<"2">>, <<"a">> }

\* What is observed of one call: the function, the identifier, the result
\* and whether the cache was left as it was; fetched is the set of
\* <<kind, identifier>> for which a call so far has requested the page,
\* got status 200 and extracted a Record.
Fetched(op, identifier, r) ==
    IF r.net = 1 /\ r.result.tag = "data" THEN {<<op, identifier>>} ELSE {}

InitCache ==
    /\ cache = [k \in CacheKeys |-> Absent]
    /\ last = [op |-> "none"]
    /\ kb = [claims |-> << >>, labels |-> << >>, created |-> 0]
    /\ log = << >>
    /\ upd = [op |-> "none"]
    /\ phase = "cache"
    /\ counter = << >>
    /\ run = [pc |-> "none"]
    /\ hist = [fetched |-> {}]

CacheSystem ==
    \E identifier \in CacheIds, get \in GetOutcomes, resp \in CacheResponses, set \in SetOutcomes :
       \E r \in {getTOP500Data(cache, identifier, get, resp, set)} :
          /\ cache' = r.cache
          /\ last' = [op |-> "sys", id |-> identifier, result |-> r.result, kept |-> r.cache = cache]
          /\ hist' = [hist EXCEPT !.fetched = @ \cup Fetched("sys", identifier, r)]
          /\ UNCHANGED <<kb, log, upd, phase, counter, run>>

CacheSite ==
    \E identifier \in CacheIds, get \in GetOutcomes, resp \in CacheResponses, set \in SetOutcomes :
       \E r \in {getTOP500SiteData(cache, identifier, get, resp, set)} :
          /\ cache' = r.cache
          /\ last' = [op |-> "loc", id |-> identifier, result |-> r.result, kept |-> r.cache = cache]
          /\ hist' = [hist EXCEPT !.fetched = @ \cup Fetched("loc", identifier, r)]
          /\ UNCHANGED <<kb, log, upd, phase, counter, run>>

NextCache == CacheSystem \/ CacheSite

SpecCache == InitCache /\ [][NextCache]_vars

---------------------------------------------------------------------------
(* Strings.  A Python str the code splits at ' ' is the sequence of its    *)
(* words: "64 GB" is <<"64", "GB">>, the empty string is <<"">> (what      *)
(* ''.split(' ') gives).  A word the code reads character by character (a  *)
(* numeral, a date) is spelled out by Spell.                               *)

Str(word) == <<word>>

EmptyStr == <<"">>

\* s + ' ' + word, as in rankdata['Rmax (GFlops)'] + ' GFlops'
ConcatWord(s, word) == Append(s, word)

\* value.split(' ')
Split(s) == s

\* not value, for a str
Falsy(s) == s = EmptyStr

Spell(word) ==
    CASE word = ""        -> << >>
      [] word = "0"       -> <<"0">>
      [] word = "0.0"     -> <<"0", ".", "0">>
      [] word = "1"       -> <<"1">>
      [] word = "8"       -> <<"8">>
      [] word = "10"      -> <<"1", "0">>
      [] word = "64"      -> <<"6", "4">>
      [] word = "128"     -> <<"1", "2", "8">>
      [] word = "560"     -> <<"5", "6", "0">>
      [] word = "1026"    -> <<"1", "0", "2", "6">>
      [] word = "1.1"     -> <<"1", ".", "1">>
      [] word = "1.5"     -> <<"1", ".", "5">>
      [] word = "1.50"    -> <<"1", ".", "5", "0">>
      [] word = "17.59"   -> <<"1", "7", ".", "5", "9">>
      [] word = "27.11"   -> <<"2", "7", ".", "1", "1">>
      [] word = "1375.78" -> <<"1", "3", "7", "5", ".", "7", "8">>
      [] word = "NaN"     -> <<"N", "a", "N">>
      [] word = "12.340"  -> <<"1", "2", ".", "3", "4", "0">>
      [] word = "12.000"  -> <<"1", "2", ".", "0", "0", "0">>
      [] word = "06/2008" -> <<"0", "6", "/", "2", "0", "0", "8">>
      [] word = "11/2012" -> <<"1", "1", "/", "2", "0", "1", "2">>
      [] word = "11/2020" -> <<"1", "1", "/", "2", "0", "2", "0">>
      [] word = "2021/03" -> <<"2", "0", "2", "1", "/", "0", "3">>
      [] word = "13/2020" -> <<"1", "3", "/", "2", "0", "2", "0">>
      [] OTHER            -> <<"?">>       \* a word that is no numeral and no date

---------------------------------------------------------------------------
(* Normalizers: formatDecimal and getDate *)

DigitValue(ch) ==
    CASE ch = "0" -> 0 [] ch = "1" -> 1 [] ch = "2" -> 2 [] ch = "3" -> 3
      [] ch = "4" -> 4 [] ch = "5" -> 5 [] ch = "6" -> 6 [] ch = "7" -> 7
      [] ch = "8" -> 8 [] ch = "9" -> 9

AllDigits(chars) == \A i \in 1..Len(chars) : chars[i] \in Digits

RECURSIVE NatOf(_)
NatOf(chars) ==
    IF chars = << >> THEN 0
    ELSE 10 * NatOf(SubSeq(chars, 1, Len(chars) - 1)) + DigitValue(chars[Len(chars)])

\* The position of the first ch in chars, 0 when there is none.
IndexOf(chars, ch) ==
    IF \E i \in 1..Len(chars) : chars[i] = ch
    THEN CHOOSE i \in 1..Len(chars) : chars[i] = ch /\ \A j \in 1..(i - 1) : chars[j] # ch
    ELSE 0

\* str.lower() of the letters a numeral is spelt with.
Lower(ch) ==
    CASE ch = "N" -> "n" [] ch = "A" -> "a" [] ch = "S" -> "s" [] ch = "I" -> "i"
      [] ch = "F" -> "f" [] ch = "E" -> "e" [] ch = "T" -> "t" [] ch = "Y" -> "y"
      [] OTHER -> ch

\* decimal.Decimal(str(num)): an optional sign, then digits with at most one
\* point and at least one digit and an optional exponent (e, optional sign,
\* digits), or NaN, sNaN, Inf or Infinity in any case.  A finite value is
\* sign * coef * 10^exp, coef being kept as decimal.Decimal keeps it: the
\* string of its digits without leading zeroes.  Any other string raises
\* InvalidOperation.  (Strings with blanks, underscores or a NaN payload are
\* not among the inputs.)
InvalidOperation == [valid |-> FALSE]

Decimal(neg, coef, exp) ==
    [valid |-> TRUE, special |-> "no", neg |-> neg, coef |-> coef, exp |-> exp]

Special(neg, kind) == [valid |-> TRUE, special |-> kind, neg |-> neg]

Zero == <<"0">>

Zeroes(n) == [i \in 1..n |-> "0"]

\* str(int(digits)) of a non-empty string of digits.
RECURSIVE StripLeading(_)
StripLeading(digits) ==
    IF Len(digits) > 1 /\ digits[1] = "0" THEN StripLeading(Tail(digits)) ELSE digits

Signed(chars) == Len(chars) > 0 /\ chars[1] \in {"+", "-"}

Negative(chars) == Signed(chars) /\ chars[1] = "-"

Unsigned(chars) == IF Signed(chars) THEN Tail(chars) ELSE chars

LowerAll(chars) == [i \in 1..Len(chars) |-> Lower(chars[i])]

\* The digits before (int) and after (frac) the point, and the exponent.
MantissaOf(neg, int, frac, shift) ==
    IF AllDigits(int) /\ AllDigits(frac) /\ Len(int) + Len(frac) > 0
    THEN Decimal(neg, StripLeading(int \o frac), shift - Len(frac))
    ELSE InvalidOperation

MantissaAt(neg, body, dot, shift) ==
    IF dot = 0 THEN MantissaOf(neg, body, << >>, shift)
    ELSE MantissaOf(neg, SubSeq(body, 1, dot - 1), SubSeq(body, dot + 1, Len(body)), shift)

Mantissa(neg, body, shift) == MantissaAt(neg, body, IndexOf(body, "."), shift)

\* The exponent after the e: an optional sign and digits.
ValidExponent(expo) == Unsigned(expo) # << >> /\ AllDigits(Unsigned(expo))

ExponentOf(expo) ==
    IF Negative(expo) THEN 0 - NatOf(Unsigned(expo)) ELSE NatOf(Unsigned(expo))

WithExponent(neg, digits, expo) ==
    IF ValidExponent(expo) THEN Mantissa(neg, digits, ExponentOf(expo))
    ELSE InvalidOperation

Finite(neg, body, e) ==
    IF e = 0 THEN Mantissa(neg, body, 0)
    ELSE WithExponent(neg, SubSeq(body, 1, e - 1), SubSeq(body, e + 1, Len(body)))

Parsed(neg, body, low) ==
    IF low = <<"n", "a", "n">> THEN Special(neg, "NaN")
    ELSE IF low = <<"s", "n", "a", "n">> THEN Special(neg, "sNaN")
    ELSE IF low \in { <<"i", "n", "f">>, <<"i", "n", "f", "i", "n", "i", "t", "y">> }
         THEN Special(neg, "Infinity")
    ELSE Finite(neg, body, IndexOf(low, "e"))

ParseDecimal(chars) == Parsed(Negative(chars), Unsigned(chars), LowerAll(Unsigned(chars)))

\* The precision of the default decimal context.
Prec == 28

\* dec.normalize(): trailing zeroes of the coefficient move to the exponent.
\* (A coefficient of more than Prec digits is rounded first; the
\* coefficients here are shorter.)
RECURSIVE Normalize(_)
Normalize(dec) ==
    IF dec.coef = Zero THEN Decimal(dec.neg, Zero, 0)
    ELSE IF dec.coef[Len(dec.coef)] = "0"
         THEN Normalize(Decimal(dec.neg, SubSeq(dec.coef, 1, Len(dec.coef) - 1), dec.exp + 1))
    ELSE dec

\* The last n digits are zeroes.
EndsInZeroes(digits, n) ==
    /\ n <= Len(digits)
    /\ \A i \in (Len(digits) - n + 1)..Len(digits) : digits[i] = "0"

\* dec == dec.to_integral()
IsIntegral(dec) == dec.coef = Zero \/ dec.exp >= 0 \/ EndsInZeroes(dec.coef, 0 - dec.exp)

\* dec.quantize(decimal.Decimal(1)) of an integral value: exponent 0, and
\* InvalidOperation when the result takes more than Prec digits.
Quantize1(dec) ==
    IF dec.coef = Zero THEN Decimal(dec.neg, Zero, 0)
    ELSE IF Len(dec.coef) + dec.exp > Prec THEN InvalidOperation
    ELSE IF dec.exp >= 0 THEN Decimal(dec.neg, dec.coef \o Zeroes(dec.exp), 0)
    ELSE Decimal(dec.neg, SubSeq(dec.coef, 1, Len(dec.coef) + dec.exp), 0)

\* library.py 917-938: formatDecimal(num); the result False is
\* InvalidOperation.  A NaN compares unequal to itself and comes back from
\* normalize(); comparing an sNaN and quantizing an infinity raise
\* InvalidOperation.
Formatted(dec) ==
    IF ~dec.valid THEN InvalidOperation
    ELSE IF dec.special = "NaN" THEN dec
    ELSE IF dec.special \in {"sNaN", "Infinity"} THEN InvalidOperation
    ELSE IF IsIntegral(dec) THEN Quantize1(dec) ELSE Normalize(dec)

formatDecimal(chars) == Formatted(ParseDecimal(chars))

\* The string spells a number: decimal.Decimal reads it as a finite value.
Finitely(dec) == dec.valid /\ dec.special = "no"

IsNumeral(chars) == Finitely(ParseDecimal(chars))

\* not amount: False, and a Decimal equal to zero, are falsy (a NaN is not).
FalsyAmount(amount) == ~amount.valid \/ (amount.special = "no" /\ amount.coef = Zero)

\* library.py 893-915: getDate(date): <<year, month>> as the two parts of
\* the string, or False.  strptime(date, '%m/%Y') wants a month of one or
\* two digits in 1..12, a '/', and a year of four digits.
NoDate == [valid |-> FALSE]

getDate(chars) ==
    LET slash == IndexOf(chars, "/")
        mm    == IF slash = 0 THEN << >> ELSE SubSeq(chars, 1, slash - 1)
        yyyy  == IF slash = 0 THEN << >> ELSE SubSeq(chars, slash + 1, Len(chars))
    IN  IF /\ slash # 0
           /\ Len(mm) \in {1, 2} /\ AllDigits(mm) /\ NatOf(mm) \in 1..12
           /\ Len(yyyy) = 4 /\ AllDigits(yyyy)
        THEN [valid |-> TRUE, year |-> NatOf(yyyy), month |-> NatOf(mm)]
        ELSE NoDate

---------------------------------------------------------------------------
(* Lookup tables (the module slist) and their accessors *)

\* slist.properties: property key -> property id.
Properties ==
    [ k \in { "instance_of", "manufacturer", "site", "cores", "memory", "cpu",
              "power", "os", "platform", "top500identifier", "performance",
              "has_role", "date" } |-> <<"P", k>> ]

\* slist.statements: value or unit token -> entity id.
Statements ==
    [ k \in { Str("supercomputer"), Str("IBM"), Str("Cray"), Str("LANL"), Str("ORNL"),
              Str("Linux"), Str("rmax"), Str("rpeak"),
              Str("GFlops"), Str("TFlops"), Str("PFlops"), Str("kW"), Str("GB") }
      |-> <<"Q", k[1]>> ]

NotMapped == <<"False">>

\* library.py 957-975: str2prop(prop)
str2prop(prop) ==
    IF prop = "label" THEN <<"label">>
    ELSE IF prop \in DOMAIN Properties THEN Properties[prop] ELSE NotMapped

\* library.py 940-955: str2statement(statement)
str2statement(statement) ==
    IF statement \in DOMAIN Statements THEN Statements[statement] ELSE NotMapped

\* library.py 289: stripped(s) drops every character outside 32..126; the
\* strings of this model hold none.
stripped(s) == s

---------------------------------------------------------------------------
(* The knowledge base behind pywikibot, and addClaim *)

\* The knowledge base: the statements of each existing item, its labels,
\* and the number of items created so far.
NewItemId(n) ==
    CASE n = 1 -> "Q101" [] n = 2 -> "Q102" [] n = 3 -> "Q103" [] n = 4 -> "Q104"
      [] n = 5 -> "Q105" [] n = 6 -> "Q106" [] n = 7 -> "Q107" [] OTHER -> "Q199"

\* pywikibot exception classes the handlers of addClaim tell apart.
\* Server504Error is a ServerError; APIError stands for every pywikibot
\* error that is none of the others.
Caught5 == {"PageRelatedError", "WikiBaseError", "TimeoutError", "Server504Error", "ServerError"}

ExcClasses == Caught5 \cup {"ValueError", "APIError"}

\* The API calls of one addClaim call that fail, as a set of
\* [stage, key, exc]: stage names the call, key the qualifier ("" for the
\* claim itself), exc the exception it raises.
FaultAt(api, stage, key) ==
    IF \E f \in api : f.stage = stage /\ f.key = key
    THEN (CHOOSE f \in api : f.stage = stage /\ f.key = key).exc
    ELSE "ok"

Fault(stage, key, exc) == [stage |-> stage, key |-> key, exc |-> exc]

ClaimResult(ret, k) == [ret |-> ret, kb |-> k]

PyItem(q) == [tag |-> "item", item |-> q]

\* A value with qualifiers ([value, {key: value, ...}]) and a plain value.
WithQualifiers(value, qualifiers) == [list |-> TRUE, value |-> value, qualifiers |-> qualifiers]

Plain(value) == [list |-> FALSE, value |-> value]

\* What a handler does with an exception of an API call: "False" (return
\* False), "continue" (next qualifier) or "raise" (not caught).
OnClaimError(exc) == IF exc \in Caught5 THEN "False" ELSE "raise"

OnTargetError(exc) == IF exc \in Caught5 \cup {"ValueError"} THEN "False" ELSE "raise"

OnStringTargetError(exc) ==
    IF exc \in {"ValueError", "TimeoutError", "Server504Error", "ServerError"} THEN "False" ELSE "raise"

OnQualifierError(exc) ==
    IF exc \in {"ValueError", "WikiBaseError"} THEN "continue"
    ELSE IF exc \in {"PageRelatedError", "TimeoutError", "Server504Error"} THEN "False"
    ELSE "raise"

\* library.py 365-457: the target of the claim by datatype: a target, or
\* "False" when the value does not map.
NoTarget == [type |-> "none"]

ClaimTarget(value, datatype) ==
    CASE datatype = "statement" ->
            IF str2statement(stripped(value)) = NotMapped THEN NoTarget
            ELSE [type |-> "item", id |-> str2statement(stripped(value))]
      [] datatype = "amount" ->
            IF Falsy(value) THEN NoTarget
            ELSE LET parts  == Split(value)
                     amount == formatDecimal(Spell(parts[1]))
                 IN  IF FalsyAmount(amount) THEN NoTarget
                     ELSE IF Len(parts) > 1
                          THEN IF str2statement(Str(parts[2])) = NotMapped THEN NoTarget
                               ELSE [type |-> "quantity", amount |-> amount,
                                     unit |-> str2statement(Str(parts[2]))]
                          ELSE [type |-> "quantity", amount |-> amount, unit |-> <<"1">>]
      [] datatype = "date" ->
            LET date == getDate(Spell(value[1]))
            IN  IF Len(value) # 1 \/ ~date.valid THEN NoTarget
                ELSE [type |-> "time", year |-> date.year, month |-> date.month]
      [] OTHER -> [type |-> "string", text |-> stripped(value)]

\* library.py 489-530: the target of a qualifier by its key.
QualifierTarget(key, value) ==
    CASE key = "has_role" -> ClaimTarget(value, "statement")
      [] key = "date"     -> ClaimTarget(value, "date")
      [] OTHER            -> [type |-> "raw", value |-> value]

\* The exception the try block of one qualifier ends with ("ok": none):
\* an unknown qualifier property or value raises ValueError, an API call
\* raises what it is scheduled to.
QualifierFailure(prop, key, target, api) ==
    IF prop = NotMapped THEN "ValueError"
    ELSE IF FaultAt(api, "qclaim", key) # "ok" THEN FaultAt(api, "qclaim", key)
    ELSE IF target = NoTarget THEN "ValueError"
    ELSE IF FaultAt(api, "qtarget", key) # "ok" THEN FaultAt(api, "qtarget", key)
    ELSE FaultAt(api, "qadd", key)

WithQualifier(k, item, n, prop, target) ==
    [k EXCEPT !.claims[item][n].qualifiers = Append(@, [prop |-> prop, target |-> target])]

\* library.py 473-541: the qualifiers loop, from qualifier i on; n is the
\* index of the statement just written on item.
RECURSIVE AddQualifiers(_, _, _, _, _, _)
RECURSIVE AfterQualifier(_, _, _, _, _, _, _, _, _)
AfterQualifier(k, item, n, qualifiers, i, api, prop, target, failed) ==
    IF failed = "ok"
    THEN AddQualifiers(WithQualifier(k, item, n, prop, target), item, n, qualifiers, i + 1, api)
    ELSE CASE OnQualifierError(failed) = "continue" ->
                  AddQualifiers(k, item, n, qualifiers, i + 1, api)
           [] OnQualifierError(failed) = "False" -> ClaimResult(PyFalse, k)
           [] OTHER -> ClaimResult(PyRaise(failed), k)

QualifierStep(k, item, n, qualifiers, i, api, key, prop, target) ==
    AfterQualifier(k, item, n, qualifiers, i, api, prop, target,
                   QualifierFailure(prop, key, target, api))

AddQualifiers(k, item, n, qualifiers, i, api) ==
    IF i > Len(qualifiers) THEN ClaimResult(PyTrue, k)
    ELSE QualifierStep(k, item, n, qualifiers, i, api, qualifiers[i][1],
                       str2prop(qualifiers[i][1]),
                       QualifierTarget(qualifiers[i][1], qualifiers[i][2]))

\* The create-new branch returning an identifier without the entity
\* having been created.
CreateItem_NotStored(k, data, api) ==
    IF FaultAt(api, "create", "") = "ok" THEN ClaimResult(PyItem(NewItemId(k.created + 1)), k)
    ELSE IF OnTargetError(FaultAt(api, "create", "")) = "False" THEN ClaimResult(PyFalse, k)
    ELSE ClaimResult(PyRaise(FaultAt(api, "create", "")), k)

\* library.py 312-328: the create-new branch of addClaim.
CreateItem(k, data, api) ==
    LET exc == FaultAt(api, "create", "")
        q   == NewItemId(k.created + 1)
    IN  IF exc = "ok"
        THEN ClaimResult(PyItem(q),
                         [claims  |-> (q :> << >>) @@ k.claims,
                          labels  |-> (q :> data) @@ k.labels,
                          created |-> k.created + 1])
        ELSE IF OnTargetError(exc) = "False" THEN ClaimResult(PyFalse, k)
        ELSE ClaimResult(PyRaise(exc), k)

\* library.py 344: claim in claims['claims']
AlreadySet(k, item, prop) ==
    /\ item \in DOMAIN k.claims
    /\ \E j \in 1..Len(k.claims[item]) : k.claims[item][j].prop = prop

\* What the handler of claim.setTarget does with an exception, by datatype.
OnSetTargetError(datatype, exc) ==
    IF datatype \in {"statement", "amount", "date"} THEN OnTargetError(exc)
    ELSE OnStringTargetError(exc)

WithStatement(k, item, prop, target) ==
    [k EXCEPT !.claims[item] = Append(@, [prop |-> prop, target |-> target, qualifiers |-> << >>])]

\* The item identifiers of the scenarios that are not of the form Q
\* followed by digits: pywikibot.ItemPage(repo, item) of line 332 raises
\* InvalidTitle for them, which is none of the errors lines 333-337 catch.
MalformedItems == {"X1"}

\* library.py 296-543: addClaim once the property (prop) and the target of
\* the value (target) are worked out.
ClaimSteps(k, item, prop, data, datatype, nonempty, api, target) ==
    IF prop = NotMapped THEN ClaimResult(PyFalse, k)
    ELSE IF item = "Q0" THEN CreateItem(k, data, api)
    ELSE IF FaultAt(api, "open", "") # "ok"
         THEN IF OnClaimError(FaultAt(api, "open", "")) = "False"
              THEN ClaimResult(PyFalse, k)
              ELSE ClaimResult(PyRaise(FaultAt(api, "open", "")), k)
    ELSE IF item \in MalformedItems THEN ClaimResult(PyRaise("InvalidTitle"), k)
    ELSE IF nonempty /\ FaultAt(api, "get", "") # "ok"
         THEN IF FaultAt(api, "get", "") = "ValueError"
              THEN ClaimResult(PyFalse, k)
              ELSE ClaimResult(PyRaise(FaultAt(api, "get", "")), k)
    ELSE IF nonempty /\ item \notin DOMAIN k.claims THEN ClaimResult(PyRaise("NoPageError"), k)
    ELSE IF nonempty /\ AlreadySet(k, item, prop) THEN ClaimResult(PyFalse, k)
    ELSE IF FaultAt(api, "claim", "") # "ok"
         THEN IF OnClaimError(FaultAt(api, "claim", "")) = "False"
              THEN ClaimResult(PyFalse, k)
              ELSE ClaimResult(PyRaise(FaultAt(api, "claim", "")), k)
    ELSE IF target = NoTarget THEN ClaimResult(PyFalse, k)
    ELSE IF FaultAt(api, "target", "") # "ok"
         THEN IF OnSetTargetError(datatype, FaultAt(api, "target", "")) = "False"
              THEN ClaimResult(PyFalse, k)
              ELSE ClaimResult(PyRaise(FaultAt(api, "target", "")), k)
    ELSE IF FaultAt(api, "add", "") # "ok"
         THEN IF OnClaimError(FaultAt(api, "add", "")) = "False"
              THEN ClaimResult(PyFalse, k)
              ELSE ClaimResult(PyRaise(FaultAt(api, "add", "")), k)
    ELSE IF item \notin DOMAIN k.claims THEN ClaimResult(PyRaise("APIError"), k)
    ELSE IF data.list
         THEN AddQualifiers(WithStatement(k, item, prop, target), item,
                            Len(k.claims[item]) + 1, data.qualifiers, 1, api)
         ELSE ClaimResult(PyTrue, WithStatement(k, item, prop, target))

\* library.py 244-543: addClaim(item, claim, data, datatype, nonempty)
addClaim(k, item, claim, data, datatype, nonempty, api) ==
    ClaimSteps(k, item, str2prop(claim), data, datatype, nonempty, api,
               ClaimTarget(data.value, datatype))

---------------------------------------------------------------------------
(* The change log page and updateLog *)

EndList == "<!-- End List -->"

LogEntry(item) == <<"* {{q|", item, "}}">>

\* page.text.replace('<!-- End List -->', '') + '* {{q|' + item + "}}\n<!-- End List -->\n"
\* on the page text as the sequence of its lines.
RECURSIVE WithoutEndList(_)
WithoutEndList(text) ==
    IF text = << >> THEN << >>
    ELSE IF Head(text) = <<EndList>> THEN WithoutEndList(Tail(text))
    ELSE <<Head(text)>> \o WithoutEndList(Tail(text))

\* The new text with the marker of the old text left in.
AppendedLog_MarkerKept(text, item) == text \o <<LogEntry(item), <<EndList>>>>

AppendedLog(text, item) == WithoutEndList(text) \o <<LogEntry(item), <<EndList>>>>

\* What page.save does in one call.
SaveOutcomes ==
    {"ok", "EditConflict", "TimeoutError", "Server504Error",
     "OtherPageSaveError", "WikiBaseError", "APIError"}

tries == 3

LogResult(ret, text, attempts) == [ret |-> ret, text |-> text, attempts |-> attempts]

PyNone == [tag |-> "None"]

\* library.py 767-800: updateLog(item), from attempt i (zero indexed) on;
\* saves[i + 1] is what the save of attempt i does.
RECURSIVE UpdateLogFrom(_, _, _, _)
UpdateLogFrom(text, item, saves, i) ==
    LET outcome == saves[i + 1]
    IN  IF outcome = "ok" THEN LogResult(PyNone, AppendedLog(text, item), i + 1)
        ELSE IF outcome \in {"EditConflict", "TimeoutError", "Server504Error"}
             THEN IF i < tries - 1 THEN UpdateLogFrom(text, item, saves, i + 1)
                  ELSE LogResult(PyFalse, text, i + 1)
        ELSE IF outcome \in {"OtherPageSaveError", "WikiBaseError"}
             THEN LogResult(PyFalse, text, i + 1)
        ELSE LogResult(PyRaise(outcome), text, i + 1)

updateLog(text, item, saves) == UpdateLogFrom(text, item, saves, 0)

---------------------------------------------------------------------------
(* The Item Update Orchestrator: updateItem *)

\* self.instance_of (config.py 6)
instance_of == Str("supercomputer")

\* The except clauses of updateItem as if they named KeyError too.
UpdateItemCatches_KeyError == {"ValueError", "IndexError", "KeyError"}

\* The exceptions every try of updateItem catches: except (ValueError, IndexError).
UpdateItemCatches == {"ValueError", "IndexError"}

\* The field claims with the site claimed before the manufacturer.
FieldClaims_SiteFirst ==
    << <<"site", "Site", "statement">>,
       <<"manufacturer", "Manufacturer", "statement">>,
       <<"cores", "Cores", "amount">>,
       <<"memory", "Memory", "amount">>,
       <<"cpu", "Processor", "statement">>,
       <<"power", "Power Consumption", "amount">>,
       <<"os", "Operating System", "statement">>,
       <<"platform", "Platform", "statement">>,
       <<"top500identifier", "ID", "string">> >>

\* The field claims of updateItem in their order (lines 574-660): the
\* property key, the key of data read for the value, the datatype.
FieldClaims ==
    << <<"manufacturer", "Manufacturer", "statement">>,
       <<"site", "Site", "statement">>,
       <<"cores", "Cores", "amount">>,
       <<"memory", "Memory", "amount">>,
       <<"cpu", "Processor", "statement">>,
       <<"power", "Power Consumption", "amount">>,
       <<"os", "Operating System", "statement">>,
       <<"platform", "Platform", "statement">>,
       <<"top500identifier", "ID", "string">> >>

\* The faults of the n-th addClaim call of one updateItem run.
FaultsOf(sched, n) == IF n \in DOMAIN sched THEN sched[n] ELSE {}

\* The state of one updateItem run: the knowledge base, the item written to,
\* the addClaim calls made so far with their results, and how the run goes
\* on: "run", or the value returned or the exception raised.
Running(k, item, calls) == [kb |-> k, item |-> item, calls |-> calls, out |-> [tag |-> "run"]]

Ended(st, out) == [st EXCEPT !.out = out]

IsRunning(st) == st.out.tag = "run"

\* One self.addClaim(item, claim, data, datatype, nonempty) inside a
\* try ... except (ValueError, IndexError): pass.
CallOf(item, claim, data, datatype, nonempty, ret) ==
    [claim |-> claim, data |-> data, datatype |-> datatype,
     nonempty |-> nonempty, item |-> item, ret |-> ret]

AfterAddClaim(st, call, r) ==
    IF r.ret.tag = "raise" /\ r.ret.exc \notin UpdateItemCatches
    THEN Ended([st EXCEPT !.kb = r.kb, !.calls = Append(@, call)], r.ret)
    ELSE [st EXCEPT !.kb = r.kb, !.calls = Append(@, call)]

Called(st, claim, data, datatype, nonempty, r) ==
    AfterAddClaim(st, CallOf(st.item, claim, data, datatype, nonempty, r.ret), r)

TryAddClaim(st, claim, data, datatype, nonempty, sched) ==
    Called(st, claim, data, datatype, nonempty,
           addClaim(st.kb, st.item, claim, data, datatype, nonempty,
                    FaultsOf(sched, Len(st.calls) + 1)))

\* The try block of one field: data[key] raises KeyError when the key is
\* absent, before addClaim is called.
TryField(st, field, data, sched) ==
    IF field[2] \notin DOMAIN data
    THEN IF "KeyError" \in UpdateItemCatches THEN st ELSE Ended(st, PyRaise("KeyError"))
    ELSE TryAddClaim(st, field[1], Plain(data[field[2]]), field[3], TRUE, sched)

RECURSIVE FieldPass(_, _, _, _)
FieldPass(st, i, data, sched) ==
    IF i > Len(FieldClaims) \/ ~IsRunning(st) THEN st
    ELSE FieldPass(TryField(st, FieldClaims[i], data, sched), i + 1, data, sched)

\* Lines 668-681: the magnitudes of one ranking entry.  Each try reads the
\* two keys of a tier and appends the unit; a KeyError that its except
\* clause catches leads to the next tier (after the last: pass), one it
\* does not catch leaves updateItem.  mags holds rmax and rpeak as the
\* entries before left them, Unbound before the first assignment.
Tiers == <<"GFlops", "TFlops", "PFlops">>

RmaxKey(tier) ==
    CASE tier = "GFlops" -> "Rmax (GFlops)"
      [] tier = "TFlops" -> "Rmax (TFlops)"
      [] tier = "PFlops" -> "Rmax (PFlops)"

RpeakKey(tier) ==
    CASE tier = "GFlops" -> "Rpeak (GFlops)"
      [] tier = "TFlops" -> "Rpeak (TFlops)"
      [] tier = "PFlops" -> "Rpeak (PFlops)"

Unbound == <<"<unbound>">>

Magnitudes(rmax, rpeak) == [tag |-> "ok", rmax |-> rmax, rpeak |-> rpeak]

RECURSIVE ProbeTiers(_, _, _)
ProbeTiers(rankdata, t, mags) ==
    IF t > Len(Tiers) THEN mags
    ELSE LET hasmax  == RmaxKey(Tiers[t]) \in DOMAIN rankdata
             haspeak == RpeakKey(Tiers[t]) \in DOMAIN rankdata
             rmax    == IF hasmax THEN ConcatWord(rankdata[RmaxKey(Tiers[t])], Tiers[t])
                        ELSE mags.rmax
             rpeak   == IF hasmax /\ haspeak
                        THEN ConcatWord(rankdata[RpeakKey(Tiers[t])], Tiers[t])
                        ELSE mags.rpeak
         IN  IF hasmax /\ haspeak THEN Magnitudes(rmax, rpeak)
             ELSE IF "KeyError" \in UpdateItemCatches
                  THEN ProbeTiers(rankdata, t + 1, Magnitudes(rmax, rpeak))
                  ELSE PyRaise("KeyError")

Role(name, date) == << <<"has_role", Str(name)>>, <<"date", date>> >>

\* Line 685: the second performance claim of an entry, which is not made
\* when the first one (the last call of st) raised.
SecondPerformance(st, mags, date, sched) ==
    IF ~IsRunning(st) \/ st.calls[Len(st.calls)].ret.tag = "raise" THEN st
    ELSE IF mags.rpeak = Unbound THEN Ended(st, PyRaise("NameError"))
    ELSE TryAddClaim(st, "performance", WithQualifiers(mags.rpeak, Role("rpeak", date)),
                     "amount", FALSE, sched)

\* Lines 683-688: the two performance claims of one entry, in one try.
TryPerformance(st, mags, date, sched) ==
    IF mags.rmax = Unbound THEN Ended(st, PyRaise("NameError"))
    ELSE SecondPerformance(TryAddClaim(st, "performance",
                                       WithQualifiers(mags.rmax, Role("rmax", date)),
                                       "amount", FALSE, sched),
                           mags, date, sched)

\* Lines 664-692: the loop over data['Rank'], from entry i on.  A KeyError
\* raised in the loop body outside the inner tries ends the loop when the
\* outer except clause catches it, and leaves updateItem when it does not.
RECURSIVE PerformancePass(_, _, _, _, _)
RECURSIVE EntryPass(_, _, _, _, _)
EntryPass(st, entries, i, probed, sched) ==
    IF "List" \notin DOMAIN entries[i] \/ probed.tag = "raise"
    THEN IF "KeyError" \in UpdateItemCatches THEN st
         ELSE Ended(st, PyRaise("KeyError"))
    ELSE PerformancePass(TryPerformance(st, probed, entries[i]["List"], sched),
                         entries, i + 1, probed, sched)

PerformancePass(st, entries, i, mags, sched) ==
    IF i > Len(entries) \/ ~IsRunning(st) THEN st
    ELSE EntryPass(st, entries, i, ProbeTiers(entries[i], 1, mags), sched)

Performance(st, data, sched) ==
    IF ~IsRunning(st) THEN st
    ELSE IF "Rank" \notin DOMAIN data
         THEN IF "KeyError" \in UpdateItemCatches THEN st ELSE Ended(st, PyRaise("KeyError"))
         ELSE PerformancePass(st, data["Rank"], 1, Magnitudes(Unbound, Unbound), sched)

\* Lines 561-562: bool(re.search('^Q[0-9]+$', item)) is None.  bool(...) is
\* True or False, never None: the test is false for every item.
ItemRejected(item) == FALSE

\* The creation with the identifier it returned not assigned to item.
Created_KeepsSentinel(k, item, call, r) ==
    IF r.ret.tag = "item" THEN Running(r.kb, item, <<call>>)
    ELSE IF r.ret.tag = "raise" /\ r.ret.exc \notin UpdateItemCatches
         THEN Ended(Running(r.kb, item, <<call>>), r.ret)
    ELSE Ended(Running(r.kb, item, <<call>>), PyFalse)

\* Lines 564-572: the creation of the item when item is 'Q0'.
Created(k, item, call, r) ==
    IF r.ret.tag = "item" THEN Running(r.kb, r.ret.item, <<call>>)
    ELSE IF r.ret.tag = "raise" /\ r.ret.exc \notin UpdateItemCatches
         THEN Ended(Running(r.kb, item, <<call>>), r.ret)
    ELSE Ended(Running(r.kb, item, <<call>>), PyFalse)

CreateWith(k, item, labels, r) ==
    Created(k, item, CallOf(item, "label", labels, "label", TRUE, r.ret), r)

Labels(data) == Plain([en |-> data["Title"], es |-> data["Title"]])

Creation(k, data, item, sched) ==
    IF item # "Q0" THEN Running(k, item, << >>)
    ELSE IF "Title" \notin DOMAIN data
         THEN Ended(Running(k, item, << >>), PyRaise("KeyError"))
    ELSE CreateWith(k, item, Labels(data),
                    addClaim(k, item, "label", Labels(data), "label", TRUE, FaultsOf(sched, 1)))

\* Lines 574-580: the instance-of claim.
InstanceOf(st, sched) ==
    IF IsRunning(st)
    THEN TryAddClaim(st, "instance_of", Plain(instance_of), "statement", TRUE, sched)
    ELSE st

\* logged is the number of saves updateLog tried and logret what it
\* returned or raised (NotCalled: updateLog was not called).
NotCalled == [tag |-> "not called"]

UpdateResult(ret, k, text, calls, item, logged, logret) ==
    [ret |-> ret, kb |-> k, log |-> text, calls |-> calls, item |-> item, logged |-> logged,
     logret |-> logret]

\* Lines 694-698: the log, and what updateItem returns.
Logged(done, logres) ==
    IF logres.ret.tag = "raise"
    THEN UpdateResult(logres.ret, done.kb, logres.text, done.calls, done.item, logres.attempts,
                      logres.ret)
    ELSE UpdateResult(PyTrue, done.kb, logres.text, done.calls, done.item, logres.attempts,
                      logres.ret)

Returned(done, text, updatelog, saves) ==
    IF ~IsRunning(done)
    THEN UpdateResult(done.out, done.kb, text, done.calls, done.item, 0, NotCalled)
    ELSE IF ~updatelog
         THEN UpdateResult(PyTrue, done.kb, text, done.calls, done.item, 0, NotCalled)
    ELSE Logged(done, updateLog(text, done.item, saves))

\* library.py 545-698: updateItem(data, item, updatelog).  sched gives the
\* faults of its addClaim calls by their number, saves what the saves of
\* the log page do.
updateItem(k, text, data, item, updatelog, sched, saves) ==
    IF ItemRejected(item) THEN UpdateResult(PyFalse, k, text, << >>, item, 0, NotCalled)
    ELSE Returned(Performance(FieldPass(InstanceOf(Creation(k, data, item, sched), sched),
                                        1, data, sched),
                              data, sched),
                  text, updatelog, saves)

---------------------------------------------------------------------------
(* updateItem on its own: one call, then the same Record against the same  *)
(* target once more.                                                       *)

\* The summary rows a system page can carry, and the page with the rows of
\* the headers in present, in their order.
SummaryRows == PageGFlops.main.rows

HeaderFields == { SummaryRows[i][1] : i \in 1..Len(SummaryRows) }

RECURSIVE SelectRows(_, _)
SelectRows(rows, present) ==
    IF rows = << >> THEN << >>
    ELSE IF Head(rows)[1] \in present THEN <<Head(rows)>> \o SelectRows(Tail(rows), present)
    ELSE SelectRows(Tail(rows), present)

\* Ranking tables of one tier: the header row, then one row per list.  A
\* row with fewer cells than headers lacks the keys of the missing cells.
TierHeaders(tier) == <<"List", "Rank", RmaxKey(tier), RpeakKey(tier)>>

TierTable(tier, rows) == RankTable(<<TierHeaders(tier)>> \o [i \in 1..Len(rows) |-> << >>],
                                   << << >> >> \o rows)

RowFull1 == << <<"06/2008">>, <<"1">>, <<"1026">>, <<"1375.78">> >>

RowFull2 == << <<"11/2012">>, <<"8">>, <<"17.59">>, <<"27.11">> >>

RowHalf == << <<"11/2020">>, <<"10">>, <<"1.1">> >>

RowBare == << <<"11/2020">>, <<"10">> >>

RankTables ==
    { TierTable(t, <<RowFull1>>) : t \in {"GFlops", "TFlops", "PFlops"} }
    \cup { TierTable("GFlops", <<RowFull1, RowFull2>>),
           TierTable("GFlops", <<RowFull1, RowBare>>),
           TierTable("GFlops", <<RowHalf>>),
           TierTable("GFlops", << >>) }

SystemPage(present, rank) ==
    [ h1    |-> PageGFlops.h1,
      title |-> PageGFlops.title,
      main  |-> MainTable(SelectRows(SummaryRows, present)),
      rank  |-> rank ]

\* The Records updateItem is called with: what the extractor makes of a
\* page with any subset of the summary rows and one GFlops entry, and of a
\* page with every summary row and each of the ranking tables.
Records ==
    { ExtractSystem(SystemPage(present, TierTable("GFlops", <<RowFull1>>)), <<"1">>).data :
          present \in SUBSET HeaderFields }
    \cup { ExtractSystem(SystemPage(HeaderFields, rank), <<"1">>).data : rank \in RankTables }

\* Fault schedules of one updateItem call: no fault, or one addClaim call
\* (by its number) with one failing API call.
MaxClaimCalls == 14

ItemFaults ==
    { Fault("create", "", "WikiBaseError"), Fault("create", "", "APIError"),
      Fault("add", "", "WikiBaseError"), Fault("add", "", "ValueError"),
      Fault("get", "", "TimeoutError"),
      Fault("qadd", "date", "Server504Error") }

Schedules ==
    { << >> } \cup { (n :> {f}) : n \in 1..MaxClaimCalls, f \in ItemFaults }

LogSaves == { <<"ok">>, <<"EditConflict", "ok">>, <<"OtherPageSaveError">>,
              <<"EditConflict", "TimeoutError", "Server504Error">>, <<"APIError">> }

\* The calls of the scenario: any Record against the existing item without
\* faults, two of the Records against the existing item or the create-new
\* sentinel under every schedule, and the same two against a malformed
\* item identifier.
UpdateInput(data, item, updatelog, sched, saves) ==
    [data |-> data, item |-> item, updatelog |-> updatelog, sched |-> sched, saves |-> saves]

FaultedRecords ==
    { ExtractSystem(PageGFlops, <<"1">>).data,
      ExtractSystem(SystemPage(HeaderFields \ {"Memory"}, TierTable("GFlops", <<RowFull1>>)),
                    <<"1">>).data }

UpdateInputs ==
    { UpdateInput(d, "Q1", u, << >>, <<"ok">>) : d \in Records, u \in BOOLEAN }
    \cup { UpdateInput(d, i, u, sc, sv) :
              d \in FaultedRecords, i \in {"Q0", "Q1"}, u \in BOOLEAN,
              sc \in Schedules, sv \in LogSaves }
    \cup { UpdateInput(d, i, u, << >>, <<"ok">>) :
              d \in FaultedRecords, i \in MalformedItems, u \in BOOLEAN }

InitialLog == << <<"== Created ==">>, <<EndList>> >>

InitialKB == [claims |-> ("Q1" :> << >>), labels |-> ("Q1" :> << >>), created |-> 0]

\* What is observed of one updateItem call; before is the text of the log
\* page when it was made.
Updated(in, r, again) ==
    [op |-> "updateItem", data |-> in.data, target |-> in.item, updatelog |-> in.updatelog,
     faulted |-> (in.sched # << >>), ret |-> r.ret, calls |-> r.calls, item |-> r.item,
     logged |-> r.logged, again |-> again, saves |-> in.saves, logret |-> r.logret,
     before |-> log]

InitItem ==
    /\ cache = [k \in CacheKeys |-> Absent]
    /\ last = NoCall
    /\ kb = InitialKB
    /\ log = InitialLog
    /\ upd = [op |-> "none"]
    /\ phase = "first"
    /\ counter = << >>
    /\ run = [pc |-> "none"]
    /\ hist = << >>

UpdateFirst ==
    /\ phase = "first"
    /\ \E in \in UpdateInputs :
          \E r \in {updateItem(kb, log, in.data, in.item, in.updatelog, in.sched, in.saves)} :
              /\ kb' = r.kb
              /\ log' = r.log
              /\ upd' = Updated(in, r, FALSE)
    /\ phase' = "second"
    /\ UNCHANGED <<cache, last, counter, run, hist>>

\* The Record of the first call once more, against the item the first call
\* wrote to, with no fault.
UpdateAgain ==
    /\ phase = "second"
    /\ upd.ret = PyTrue
    /\ \E in \in {UpdateInput(upd.data, upd.item, upd.updatelog, << >>, <<"ok">>)} :
          \E r \in {updateItem(kb, log, in.data, in.item, in.updatelog, in.sched, in.saves)} :
              /\ kb' = r.kb
              /\ log' = r.log
              /\ upd' = Updated(in, r, TRUE)
    /\ phase' = "done"
    /\ UNCHANGED <<cache, last, counter, run, hist>>

NextItem == UpdateFirst \/ UpdateAgain

SpecItem == InitItem /\ [][NextItem]_vars

---------------------------------------------------------------------------
(* addClaim on its own: one call, then a second one.                       *)

\* The property keys, values and kinds addClaim is called with.
ClaimArgs ==
    << <<"manufacturer", Plain(Str("IBM")), "statement">>,
       <<"manufacturer", Plain(Str("Cray")), "statement">>,
       <<"site", Plain(Str("Nowhere")), "statement">>,
       <<"cores", Plain(Str("128")), "amount">>,
       <<"cores", Plain(Str("0")), "amount">>,
       <<"memory", Plain(Str("0.0")), "amount">>,
       <<"cores", Plain(Str("NaN")), "amount">>,
       <<"cores", Plain(EmptyStr), "amount">>,
       <<"cores", Plain(Str("many")), "amount">>,
       <<"date", Plain(Str("06/2008")), "date">>,
       <<"date", Plain(Str("2021/03")), "date">>,
       <<"power", Plain(<<"10", "kW">>), "amount">>,
       <<"power", Plain(<<"10", "zz">>), "amount">>,
       <<"top500identifier", Plain(Str("1")), "string">>,
       <<"bogus", Plain(Str("1")), "string">>,
       <<"performance", WithQualifiers(<<"1026", "GFlops">>, Role("rmax", <<"06/2008">>)), "amount">>,
       <<"performance", WithQualifiers(<<"1026", "GFlops">>, Role("rmax", <<"13/2020">>)), "amount">>,
       <<"label", Plain([en |-> Str("Roadrunner"), es |-> Str("Roadrunner")]), "label">>,
       <<"label", Plain([en |-> Str("Roadrunner"), es |-> Str("Roadrunner")]), "string">> >>

ClaimFaults ==
    ItemFaults \cup { Fault("qadd", "has_role", "WikiBaseError"),
                      Fault("qclaim", "has_role", "TimeoutError"),
                      Fault("qtarget", "date", "ServerError"),
                      Fault("target", "", "PageRelatedError") }

ClaimApis == { {} } \cup { {f} : f \in ClaimFaults }

\* The statements an item carries.
StatementsOf(k, item) == IF item \in DOMAIN k.claims THEN k.claims[item] ELSE << >>

\* The qualifiers of the statement a call appended to the item, in the
\* order they were attached (none when it appended no statement).
Attached(before, after) ==
    IF Len(after) > Len(before) THEN after[Len(after)].qualifiers ELSE << >>

\* What is observed of one addClaim call: its arguments, the API calls that
\* failed in it, its result, the number of statements it wrote on the item
\* with the qualifiers it attached, and the same of the call before it.
Claimed(item, args, nonempty, api, r, prior) ==
    [op |-> "addClaim", item |-> item, claim |-> args[1], data |-> args[2],
     datatype |-> args[3], nonempty |-> nonempty, faulted |-> (api # {}),
     api |-> api, ret |-> r.ret,
     written |-> Len(StatementsOf(r.kb, item)) - Len(StatementsOf(kb, item)),
     attached |-> Attached(StatementsOf(kb, item), StatementsOf(r.kb, item)),
     kept |-> r.kb = kb,
     prior |-> prior]

PriorOf(obs) ==
    IF obs.op = "addClaim"
    THEN [op |-> "addClaim", item |-> obs.item, claim |-> obs.claim,
          nonempty |-> obs.nonempty, ret |-> obs.ret, written |-> obs.written]
    ELSE [op |-> "none"]

InitClaim ==
    /\ cache = [k \in CacheKeys |-> Absent]
    /\ last = NoCall
    /\ kb = InitialKB
    /\ log = InitialLog
    /\ upd = [op |-> "none"]
    /\ phase = "first"
    /\ counter = << >>
    /\ run = [pc |-> "none"]
    /\ hist = << >>

ClaimCall(from, to) ==
    /\ phase = from
    /\ \E item \in {"Q0", "Q1"}, n \in 1..Len(ClaimArgs), nonempty \in BOOLEAN, api \in ClaimApis :
          \E r \in {addClaim(kb, item, ClaimArgs[n][1], ClaimArgs[n][2], ClaimArgs[n][3],
                              nonempty, api)} :
              /\ kb' = r.kb
              /\ upd' = Claimed(item, ClaimArgs[n], nonempty, api, r, PriorOf(upd))
    /\ phase' = to
    /\ UNCHANGED <<cache, last, log, counter, run, hist>>

ClaimFirst == ClaimCall("first", "second")

ClaimSecond == ClaimCall("second", "done")

NextClaim == ClaimFirst \/ ClaimSecond

SpecClaim == InitClaim /\ [][NextClaim]_vars

---------------------------------------------------------------------------
(* The Batch Controller: mass, readCounter and updateCounter, with crashes *)
(* and restarts.                                                           *)

\* library.py 847: fact = 2000, the size of the window of one partition,
\* scaled down.
fact == 3

\* The largest partition (mul) a run is started for.
MaxMul == 1

\* The number of runs of mass that are started.
MaxRuns == 2

Partitions == 0..MaxMul

\* str(n) of a natural number.
DigitChar(d) == <<"0", "1", "2", "3", "4", "5", "6", "7", "8", "9">>[d + 1]

RECURSIVE Numeral(_)
Numeral(n) == IF n < 10 THEN <<DigitChar(n)>> ELSE Append(Numeral(n \div 10), DigitChar(n % 10))

\* What mass is started with: the numeral of a partition, or no number.
MulArgs == { Numeral(m) : m \in Partitions } \cup { <<"x">> }

\* library.py 849-852: int(mul), 0 on a ValueError.
IntOrZero(arg) == IF arg # << >> /\ AllDigits(arg) THEN NatOf(arg) ELSE 0

\* The content of a counter file: no file, an empty file (opened for
\* writing and not written yet), or the numeral written last.
NoFile == [kind |-> "absent"]

EmptyFile == [kind |-> "text", text |-> << >>]

FileWith(chars) == [kind |-> "text", text |-> chars]

\* library.py 1018-1038: readCounter(mul): the integer in the file, or
\* False.
readCounter(files, mul) ==
    LET f == files[mul]
    IN  IF f.kind = "absent" THEN PyFalse                              \* OSError
        ELSE IF f.text = << >> \/ ~AllDigits(f.text) THEN PyFalse      \* ValueError
        ELSE [tag |-> "int", val |-> NatOf(f.text)]

\* library.py 854-859: the identifier mass starts from.
StartIdentifier(files, mul) ==
    LET identifier == readCounter(files, mul)
    IN  IF identifier = PyFalse \/ identifier.val = 0 THEN mul * fact + 1
        ELSE identifier.val

\* library.py 861
Limit(mul) == (mul * fact + 1) + fact

BatchIds == (0 * fact + 1)..(Limit(MaxMul) - 1)

\* The counter files the first run finds on the disk: masscount.<mul> is
\* absent, or holds an integer an earlier process left there.  The code
\* reads whatever integer the file holds (lines 1034-1036); the one offered
\* here lies inside the window of partition 0 and below the window of
\* every other partition.
FoundFiles == {NoFile, FileWith(Numeral(fact - 1))}

WrittenLast(f) == IF f = NoFile THEN 0 ELSE NatOf(f.text)

\* What the site answers to the request of one identifier in a batch, and
\* the faults of the addClaim calls of its updateItem.
PageNoMemory == SystemPage(HeaderFields \ {"Memory"}, TierTable("GFlops", <<RowFull1>>))

\* The page the site holds for an identifier: a full page, a page without
\* the Memory row, or a page without tables, by turns.
Website(identifier) ==
    CASE identifier % 3 = 1 -> PageGFlops
      [] identifier % 3 = 2 -> PageNoMemory
      [] OTHER              -> PageNoTables

\* The site answers with its page, or cannot be reached.
BatchResponses(identifier) ==
    { [kind |-> "RequestException"],
      [kind |-> "status", code |-> 200, page |-> Website(identifier)] }

BatchSchedules == { << >>, (1 :> {Fault("create", "", "WikiBaseError")}) }

\* What open(..., "w") does in one call of updateCounter.
OpenOutcomes == {"ok", "OSError"}

Idle == [pc |-> "idle"]

\* library.py 52-67: the Top500Importer object after its constructor: has
\* self.site been set, what is self.redis ("up": set and answering, "down":
\* set, every command raises ConnectionError, "unset": never assigned), and
\* self.error ("none": never assigned).
Built == [site |-> TRUE, redis |-> "up", error |-> "none"]

\* The object the running script holds.
Importer == IF upd.op = "script" THEN upd.importer ELSE Built

\* What self.redis.get and self.redis.set do for that object.  Without
\* self.redis they raise AttributeError, which lines 101 and 173 catch
\* together with RedisError.
CacheGet(importer) == IF importer.redis = "up" THEN "stored" ELSE "RedisError"

CacheSet(importer) == IF importer.redis = "up" THEN "ok" ELSE "RedisError"

\* Without self.site the first pywikibot call of addClaim (line 315 or
\* 331) raises AttributeError.
NoSite == (1 :> {Fault("create", "", "AttributeError"), Fault("open", "", "AttributeError")})

SchedulesOf(importer) == IF importer.site THEN BatchSchedules ELSE {NoSite}

InitBatch ==
    /\ cache = [k \in { CacheKey("sys", Numeral(i)) : i \in BatchIds } |-> Absent]
    /\ last = NoCall
    /\ kb = [claims |-> << >>, labels |-> << >>, created |-> 0]
    /\ log = InitialLog
    /\ upd = [op |-> "none"]
    /\ phase = "batch"
    /\ counter \in [Partitions -> FoundFiles]
    /\ run = Idle
    /\ hist = [runs |-> 0, persisted |-> [m \in Partitions |-> WrittenLast(counter[m])],
               processed |-> { WrittenLast(counter[m]) : m \in Partitions } \ {0}]

\* library.py 847-861: mass up to the loop.  Of the history of the run,
\* floor is the value written last to the counter of the partition when the
\* run starts (0: none), after how the run before it ended ("idle": it
\* crashed, or there was none), tried the identifiers attempted, saved
\* whether updateCounter has completed for the last of them, again
\* whether updateCounter had completed for it before it was attempted,
\* net the number of requests it made to the source, and read what
\* readCounter returned at line 855.
Started(mul) ==
    [pc |-> "loop", mul |-> mul, identifier |-> StartIdentifier(counter, mul),
     limit |-> Limit(mul), floor |-> hist.persisted[mul], read |-> readCounter(counter, mul),
     after |-> run.pc, tried |-> << >>, outcome |-> "none",
     saved |-> FALSE, again |-> FALSE, net |-> 0]

Start ==
    /\ run.pc \in {"idle", "raised", "returned"}
    /\ hist.runs < MaxRuns
    /\ \E arg \in MulArgs : run' = Started(IntOrZero(arg))
    /\ hist' = [hist EXCEPT !.runs = @ + 1]
    /\ UNCHANGED <<cache, last, kb, log, upd, phase, counter>>

\* library.py 863-885: the body of the loop up to the call of
\* updateCounter: the fetch and updateItem(data) with item 'Q0'.  An
\* exception that is no ValueError leaves mass.
Attempt ==
    /\ run.pc = "loop"
    /\ run.identifier < run.limit
    /\ \E resp \in BatchResponses(run.identifier), sched \in SchedulesOf(Importer) :
       \E r \in {getTOP500Data(cache, Numeral(run.identifier), CacheGet(Importer), resp,
                                CacheSet(Importer))} :
       \E tried \in {[run EXCEPT !.tried = Append(@, run.identifier), !.saved = FALSE,
                                 !.again = run.identifier \in hist.processed,
                                 !.net = @ + r.net]} :
          /\ cache' = r.cache
          /\ IF r.result = PyFalse
             THEN /\ run' = [tried EXCEPT !.pc = "save", !.outcome = "notfound"]
                  /\ UNCHANGED <<kb, log>>
             ELSE IF r.result.tag = "raise"
             THEN /\ run' = [tried EXCEPT !.pc = "raised", !.outcome = r.result.exc]
                  /\ UNCHANGED <<kb, log>>
             ELSE \E u \in {updateItem(kb, log, r.result.data, "Q0", TRUE, sched, <<"ok">>)} :
                  /\ kb' = u.kb
                  /\ log' = u.log
                  /\ run' = IF u.ret.tag = "raise" /\ u.ret.exc # "ValueError"
                            THEN [tried EXCEPT !.pc = "raised", !.outcome = u.ret.exc]
                            ELSE [tried EXCEPT !.pc = "save",
                                               !.outcome = IF u.ret = PyTrue THEN "updated"
                                                           ELSE "failed"]
    /\ UNCHANGED <<last, upd, phase, counter, hist>>

\* OpenCounter with the identifier kept when open() fails, as if line 887
\* were skipped on that path.
OpenCounter_SameIdentifier ==
    /\ run.pc = "save"
    /\ \E o \in OpenOutcomes :
          IF o = "ok"
          THEN /\ counter' = [counter EXCEPT ![run.mul] = EmptyFile]
               /\ run' = [run EXCEPT !.pc = "write"]
          ELSE /\ run' = [run EXCEPT !.pc = "loop"]
               /\ UNCHANGED counter
    /\ UNCHANGED <<cache, last, kb, log, upd, phase, hist>>

\* library.py 1010: open("masscount." + str(mul), "w") of updateCounter
\* empties the file; on an OSError updateCounter returns False and mass
\* goes on with the next identifier.
OpenCounter ==
    /\ run.pc = "save"
    /\ \E o \in OpenOutcomes :
          IF o = "ok"
          THEN /\ counter' = [counter EXCEPT ![run.mul] = EmptyFile]
               /\ run' = [run EXCEPT !.pc = "write"]
          ELSE /\ run' = [run EXCEPT !.pc = "loop", !.identifier = @ + 1]
               /\ UNCHANGED counter
    /\ UNCHANGED <<cache, last, kb, log, upd, phase, hist>>

\* library.py 1011-1012 and 887: f.write(str(amount)), f.close(), and
\* identifier = identifier + 1.
WriteCounter ==
    /\ run.pc = "write"
    /\ counter' = [counter EXCEPT ![run.mul] = FileWith(Numeral(run.identifier))]
    /\ hist' = [hist EXCEPT !.persisted[run.mul] = run.identifier,
                            !.processed = @ \cup {run.identifier}]
    /\ run' = [run EXCEPT !.pc = "loop", !.identifier = @ + 1, !.saved = TRUE]
    /\ UNCHANGED <<cache, last, kb, log, upd, phase>>

\* library.py 863, 889: the loop ends, mass returns True.
Finish ==
    /\ run.pc = "loop"
    /\ run.identifier >= run.limit
    /\ run' = [run EXCEPT !.pc = "returned"]
    /\ UNCHANGED <<cache, last, kb, log, upd, phase, counter, hist>>

\* The process dies between two of its steps.
Crash ==
    /\ run.pc \in {"loop", "save", "write"}
    /\ run' = Idle
    /\ UNCHANGED <<cache, last, kb, log, upd, phase, counter, hist>>

Next == Start \/ Attempt \/ OpenCounter \/ WriteCounter \/ Finish \/ Crash

Spec == InitBatch /\ [][Next]_vars

---------------------------------------------------------------------------
(* The entry scripts __main__.py and main.py: one process from its start   *)
(* to its end, in a batch run (--mass, SpecScript) or a single-record run  *)
(* (-i, -t, SpecSingle).                                                   *)

Scripts == {"__main__", "main"}

\* library.py 62-67: what the constructor leaves.  redis.Redis(...) opens
\* no connection before its first command: it returns with the server up or
\* down, or raises ConnectionError as line 66 expects; pywikibot.Site
\* returns or raises SiteDefinitionError.  Line 64 comes first: once it has
\* raised, self.site is not assigned either.
Constructed ==
    { Built,
      [site |-> TRUE, redis |-> "down", error |-> "none"],
      [site |-> FALSE, redis |-> "up", error |-> "SiteDefinitionError"],
      [site |-> FALSE, redis |-> "unset", error |-> "ConnectionError"] }

\* library.py 1053: subprocess.run(["qstat", ...], check=True) returns with
\* returncode 0, raises CalledProcessError on any other return code, or
\* raises FileNotFoundError when there is no qstat.
QstatOutcomes == {"zero", "CalledProcessError", "FileNotFoundError"}

\* What page.save does in one call of updateStatus.
StatusSaves == {"ok", "PageRelatedError"}

\* The status page before the process has written to it.
NoStatus == <<"?">>

\* library.py 700-742: the text of the status page after
\* updateStatus(status).  Without self.site line 732 raises AttributeError
\* (line 735); a failed save is reported and swallowed (lines 737-742).
updateStatus(page, importer, status, save) ==
    IF ~importer.site THEN page
    ELSE IF save = "ok" THEN Numeral(status)
    ELSE page

\* The status a script reports before it starts to work: __main__.py 106,
\* 125 and main.py 82, 100.
StartStatus(script) == IF script = "__main__" THEN 0 ELSE 1

\* sys.exit(code), and an exception that nothing catches.
SysExit(code) == [tag |-> "exit", code |-> code]

\* __main__.py 111-120, 130-139, 149-157 and main.py 87-96, 106-115,
\* 125-133: qstat() and the sys.exit that follows it.  Since qstat runs
\* with check=True the else branch is never taken: CalledProcessError
\* leaves the script.
AfterQstat(script, q) ==
    CASE q = "zero"              -> SysExit(128)
      [] q = "FileNotFoundError" -> SysExit(IF script = "__main__" THEN 2 ELSE 0)
      [] OTHER                   -> PyRaise(q)

\* __main__.py 141-142 and main.py 117-118: main() returned False.
AfterFailure(script) == SysExit(IF script = "__main__" THEN 1 ELSE 2)

\* The process: which script in which mode, where it stands ("off": not
\* started, "begin": set up, "run": in mass, "exited"), the object it holds,
\* the text of the status page, the code of the SystemExit it ended with
\* (-1: none), the exit code of the process (-1: running), whether it was
\* interrupted, whether it ran mass() or main() to its end, the number of
\* requests main() made to the source, and what became of the updateStatus
\* call of the SystemExit handler ("none": there was no such call).
NoProcess ==
    [op |-> "script", pc |-> "off", script |-> "none", mode |-> "none", importer |-> Built,
     page |-> NoStatus, code |-> 0 - 1, exit |-> 0 - 1, interrupted |-> FALSE,
     done |-> FALSE, net |-> 0, report |-> "none"]

\* __main__.py 159-161 and main.py 135-136: the handler of SystemExit
\* writes the code to the status page (main.py hands over the exception,
\* whose str is the str of its code); __main__.py then exits with 0 and
\* main.py runs off its end.  An exception that is no SystemExit ends the
\* process with a traceback and the exit code 1.
Terminated(p, out, save) ==
    IF out.tag = "exit"
    THEN [p EXCEPT !.pc = "exited", !.code = out.code, !.exit = 0,
                   !.page = updateStatus(p.page, p.importer, out.code, save),
                   !.report = IF p.importer.site /\ save = "ok" THEN "saved" ELSE "failed"]
    ELSE [p EXCEPT !.pc = "exited", !.exit = 1]

InitScript ==
    /\ cache = [k \in { CacheKey("sys", Numeral(i)) : i \in BatchIds } |-> Absent]
    /\ last = NoCall
    /\ kb = InitialKB
    /\ log = InitialLog
    /\ upd = NoProcess
    /\ phase = "script"
    /\ counter = [m \in Partitions |-> NoFile]
    /\ run = Idle
    /\ hist = [runs |-> 0, persisted |-> [m \in Partitions |-> 0], processed |-> {}]

\* __main__.py 75-99 and main.py 70-78: the object is constructed.
\* __main__.py leaves with sys.exit(1), turned into sys.exit(0) by line 99,
\* when the object has an error attribute; main.py does not look at it.
Prepared(p, script, importer) ==
    IF script = "__main__" /\ importer.error # "none"
    THEN [p EXCEPT !.script = script, !.importer = importer,
                   !.pc = "exited", !.code = 1, !.exit = 0]
    ELSE [p EXCEPT !.script = script, !.importer = importer, !.pc = "begin"]

PrepareMass ==
    /\ upd.pc = "off"
    /\ \E script \in Scripts, importer \in Constructed :
          upd' = Prepared([upd EXCEPT !.mode = "mass"], script, importer)
    /\ UNCHANGED <<cache, last, kb, log, phase, counter, run, hist>>

PrepareSingle ==
    /\ upd.pc = "off"
    /\ \E script \in Scripts, importer \in Constructed :
          upd' = Prepared([upd EXCEPT !.mode = "single"], script, importer)
    /\ UNCHANGED <<cache, last, kb, log, phase, counter, run, hist>>

\* __main__.py 105-108 and main.py 81-84: updateStatus, then mass(mul) up
\* to its loop.
BeginMass ==
    /\ upd.pc = "begin"
    /\ upd.mode = "mass"
    /\ \E arg \in MulArgs, save \in StatusSaves :
          /\ upd' = [upd EXCEPT !.pc = "run",
                                !.page = updateStatus(@, upd.importer, StartStatus(upd.script), save)]
          /\ run' = Started(IntOrZero(arg))
    /\ hist' = [hist EXCEPT !.runs = @ + 1]
    /\ UNCHANGED <<cache, last, kb, log, phase, counter>>

\* __main__.py 108-120 and main.py 84-96: mass has returned, or an
\* exception has left it.
EndMass ==
    /\ upd.pc = "run"
    /\ run.pc \in {"returned", "raised"}
    /\ \E q \in QstatOutcomes, save \in StatusSaves :
          upd' = IF run.pc = "returned"
                 THEN Terminated([upd EXCEPT !.done = TRUE], AfterQstat(upd.script, q), save)
                 ELSE Terminated(upd, PyRaise(run.outcome), save)
    /\ UNCHANGED <<cache, last, kb, log, phase, counter, run, hist>>

\* __main__.py 148-157 and main.py 124-133: KeyboardInterrupt between two
\* steps of mass.
InterruptMass ==
    /\ upd.pc = "run"
    /\ run.pc \in {"loop", "save", "write"}
    /\ \E q \in QstatOutcomes, save \in StatusSaves :
          upd' = Terminated([upd EXCEPT !.interrupted = TRUE], AfterQstat(upd.script, q), save)
    /\ run' = [run EXCEPT !.pc = "interrupted"]
    /\ UNCHANGED <<cache, last, kb, log, phase, counter, hist>>

\* library.py 818-833: what main(identifier, item) returns or raises after
\* getTOP500Data (fetched) and after updateItem (ret).
MainAfterFetch(fetched) == IF fetched = PyFalse THEN PyFalse ELSE fetched

MainAfterUpdate(ret) ==
    IF ret = PyTrue THEN PyTrue
    ELSE IF ret = PyFalse \/ ret.exc = "ValueError" THEN PyFalse
    ELSE ret

\* The identifiers and items of the single-record runs.
SingleIds == {1, 2}

SingleItems == {"Q0", "Q1"}

\* __main__.py 124-142 and main.py 100-118: what follows main().
AfterMain(script, ret, q) ==
    IF ret = PyTrue THEN AfterQstat(script, q)
    ELSE IF ret = PyFalse THEN AfterFailure(script)
    ELSE ret

\* __main__.py 124-142 and main.py 100-118: updateStatus, main() and the
\* end of the process.
RunSingle ==
    /\ upd.pc = "begin"
    /\ upd.mode = "single"
    /\ \E identifier \in SingleIds, item \in SingleItems, q \in QstatOutcomes,
          save0 \in StatusSaves, save \in StatusSaves :
       \E resp \in BatchResponses(identifier), sched \in SchedulesOf(upd.importer) :
       \E f \in {getTOP500Data(cache, Numeral(identifier), CacheGet(upd.importer), resp,
                                CacheSet(upd.importer))} :
       \E p \in {[upd EXCEPT !.done = TRUE, !.net = f.net,
                             !.page = updateStatus(@, upd.importer, StartStatus(upd.script), save0)]} :
          /\ cache' = f.cache
          /\ IF f.result.tag # "data"
             THEN /\ upd' = Terminated(p, AfterMain(upd.script, MainAfterFetch(f.result), q), save)
                  /\ UNCHANGED kb
             ELSE \E u \in {updateItem(kb, log, f.result.data, item, FALSE, sched, <<"ok">>)} :
                  /\ upd' = Terminated(p, AfterMain(upd.script, MainAfterUpdate(u.ret), q), save)
                  /\ kb' = u.kb
    /\ UNCHANGED <<last, log, phase, counter, run, hist>>

\* KeyboardInterrupt in a single-record run, before main() has done
\* anything.
InterruptSingle ==
    /\ upd.pc = "begin"
    /\ upd.mode = "single"
    /\ \E q \in QstatOutcomes, save0 \in StatusSaves, save \in StatusSaves :
       \E p \in {[upd EXCEPT !.interrupted = TRUE,
                             !.page = updateStatus(@, upd.importer, StartStatus(upd.script), save0)]} :
          upd' = Terminated(p, AfterQstat(upd.script, q), save)
    /\ UNCHANGED <<cache, last, kb, log, phase, counter, run, hist>>

NextScript ==
    \/ PrepareMass \/ BeginMass \/ Attempt \/ OpenCounter \/ WriteCounter \/ Finish
    \/ EndMass \/ InterruptMass

SpecScript == InitScript /\ [][NextScript]_vars

NextSingle == PrepareSingle \/ RunSingle \/ InterruptSingle

SpecSingle == InitScript /\ [][NextSingle]_vars

---------------------------------------------------------------------------
(* formatDecimal on its own: one call on any of the strings below.        *)

\* The strings formatDecimal is called with: every string of at most
\* MaxNumLen characters over NumChars, and the numerals of NamedNums.
MaxNumLen == 3

NumChars == {"0", "1", "5", ".", "-", "e", "a"}

NamedNums ==
    { <<"1", "2", ".", "3", "4", "0">>, <<"1", "2", ".", "0", "0", "0">>,
      <<"1", "2", "0", "0">>, <<"a", "b", "c">>, <<"N", "a", "N">>, <<"n", "a", "n">>,
      <<"s", "N", "a", "N">>, <<"I", "n", "f">>, <<"-", "0", ".", "0">>,
      <<"1", "E", "+", "2", "8">>, <<"1", "5", "e", "-", "1">> }

Nums == NamedNums \cup UNION { [1..n -> NumChars] : n \in 0..MaxNumLen }

InitDecimal ==
    /\ cache = [k \in CacheKeys |-> Absent]
    /\ last = NoCall
    /\ kb = [claims |-> << >>, labels |-> << >>, created |-> 0]
    /\ log = << >>
    /\ upd = [op |-> "none"]
    /\ phase = "decimal"
    /\ counter = << >>
    /\ run = [pc |-> "none"]
    /\ hist = << >>

CallFormatDecimal ==
    /\ phase = "decimal"
    /\ \E num \in Nums :
          upd' = [op |-> "formatDecimal", num |-> num, result |-> formatDecimal(num)]
    /\ UNCHANGED <<cache, last, kb, log, phase, counter, run, hist>>

NextDecimal == CallFormatDecimal

SpecDecimal == InitDecimal /\ [][NextDecimal]_vars

---------------------------------------------------------------------------
(* Claims about the Cache-Fronted Fetcher (under SpecFetch) *)

IsFetch(obs) == obs.op \in {"sys", "loc"}

\* The call was answered from the cache: a Record, and no request.
CacheHit(obs) == obs.get = "stored" /\ obs.result.tag = "data" /\ obs.net = 0

\* C8 as stated: for every identifier matching ^[0-9]+$, the second of two
\* consecutive fetchSystem calls returns the Record the first returned and
\* is served from the cache with no network request.
C8_SecondCallFromCache ==
    (last.op = "sys" /\ IsNumericId(last.id) /\ last.before.tag # "none")
        => /\ last.before.tag = "data"
           /\ last.result = last.before
           /\ last.net = 0

\* C8 amended: when a fetchSystem call on an identifier matching ^[0-9]+$
\* returned a Record and left it in the cache, and the cache answers the
\* read of the next fetchSystem call on that identifier with the stored
\* entry, that call returns the identical Record, makes no network request
\* and writes nothing.
C8_SecondCallFromCacheWhenStored ==
    (last.op = "sys" /\ IsNumericId(last.id) /\ last.held /\ last.get = "stored")
        => /\ last.result = last.before
           /\ last.net = 0
           /\ last.writes = 0
           /\ last.kept

\* Two consecutive fetchSystem calls, the second served from the cache with
\* the Record the first one fetched from the site.
C8_Witness ==
    /\ last.op = "sys" /\ IsNumericId(last.id)
    /\ last.held /\ last.get = "stored"
    /\ last.before.tag = "data"
    /\ last.result = last.before
    /\ last.net = 0 /\ last.writes = 0 /\ last.kept

\* C9: for every identifier that does not match ^[0-9]+$, fetchSystem and
\* fetchSite return NotFound without a cache read, a cache write or a
\* network request.
C9_NonNumericNotFound ==
    (IsFetch(last) /\ ~IsNumericId(last.id))
        => /\ last.result = PyFalse
           /\ last.net = 0 /\ last.reads = 0 /\ last.writes = 0

\* Both fetchers have been called with a non-numeric identifier; here the
\* site fetcher with "1a".
C9_Witness ==
    /\ last.op = "loc" /\ last.id = <<"1", "a">>
    /\ last.result = PyFalse /\ last.reads = 0

\* C10: in fetchSystem and in fetchSite, a cache lookup that finds no key,
\* returns undecodable bytes or raises a cache-client error is handled as a
\* miss: the fetcher goes on to the live fetch and returns a Record or
\* NotFound, never an unhandled error.
C10_CacheFailureIsMiss ==
    (IsFetch(last) /\ IsNumericId(last.id) /\ ~CacheHit(last))
        => /\ last.net = 1
           /\ last.result.tag \in {"data", "False"}

\* The site did not answer the request of the call with status 200.
LiveFailure(obs) == obs.net >= 1 /\ obs.answer # [kind |-> "status", code |-> 200]

\* C11: in fetchSystem and in fetchSite, a live fetch that fails at the
\* network level or answers with a status other than 200 yields NotFound:
\* exactly one request is made, no Record is produced and nothing is
\* written to the cache.
C11_LiveFailureIsNotFound ==
    (IsFetch(last) /\ LiveFailure(last))
        => /\ last.result = PyFalse
           /\ last.net = 1
           /\ last.writes = 0 /\ last.kept

\* C12: when a page was fetched and extracted successfully but the cache
\* write fails, fetchSystem and fetchSite still return the extracted Record
\* (the Record of the identifier asked for, after one request), and the
\* failure of the write is not raised to the caller.
C12_WriteFailureSwallowed ==
    (IsFetch(last) /\ last.set = "RedisError")
        => /\ last.result.tag = "data"
           /\ last.result.data["ID"] = last.id
           /\ last.net = 1 /\ last.answer = [kind |-> "status", code |-> 200]
           /\ last.kept

\* fetchSite has extracted a Record from the page, its cache write has
\* failed and it has returned the Record.
C12_Witness ==
    /\ last.op = "loc" /\ last.set = "RedisError"
    /\ last.result.tag = "data" /\ last.writes = 1 /\ last.kept

---------------------------------------------------------------------------
(* Claims about the entries of the cache (under SpecCache) *)

\* The entry was written by a call that fetched and extracted the page of
\* the identifier of its key.
WrittenAfterFetch(kind, identifier) == <<kind, identifier>> \in hist.fetched

\* A call that returned False left the cache as it was.
NotFoundKeepsCache == (last.op # "none" /\ last.result = PyFalse) => last.kept

\* C31: every entry of the cache under top500-sys-<id> or top500-loc-<id>
\* was written after a fetch and extraction for that <id> that succeeded
\* and holds a Record whose ID field is <id>; a call that ends in NotFound
\* creates and changes no entry.
C31_EntriesHoldOwnId ==
    /\ \A kind \in {"sys", "loc"}, identifier \in Identifiers :
          cache[CacheKey(kind, identifier)].present
             => /\ WrittenAfterFetch(kind, identifier)
                /\ JsonLoads(cache[CacheKey(kind, identifier)])["ID"] = identifier
    /\ NotFoundKeepsCache

\* The Record the extractor of the kind makes of a page for an identifier.
ExtractedAs(kind, page, identifier) ==
    IF kind = "sys" THEN ExtractSystem(page, identifier) ELSE ExtractSite(page, identifier)

HasOwnID(page) == \E i \in 1..Len(page.main.rows) : page.main.rows[i][1] = "ID"

\* The entry is the Record extracted from a page for the identifier, and
\* its ID field is the identifier unless the summary table of that page
\* has a row labelled ID.
HoldsExtracted(kind, identifier, entry) ==
    \E page \in CachePages :
       /\ page.main.present
       /\ ExtractedAs(kind, page, identifier).tag = "data"
       /\ JsonLoads(entry) = ExtractedAs(kind, page, identifier).data
       /\ ~HasOwnID(page) => JsonLoads(entry)["ID"] = identifier

\* C31, amended: every entry was written after a fetch and extraction for
\* the <id> of its key that succeeded and holds the Record extracted for
\* that <id>, whose ID field is <id> unless the page has a summary row
\* labelled ID; a call that ends in NotFound creates and changes no entry.
C31_EntriesHoldExtracted ==
    /\ \A kind \in {"sys", "loc"}, identifier \in Identifiers :
          cache[CacheKey(kind, identifier)].present
             => /\ WrittenAfterFetch(kind, identifier)
                /\ IsNumericId(identifier)
                /\ HoldsExtracted(kind, identifier, cache[CacheKey(kind, identifier)])
    /\ NotFoundKeepsCache

\* The cache holds an entry of each kind, and the last call ended in
\* NotFound after a request for an identifier that has an entry.
C31_Witness ==
    /\ cache[CacheKey("sys", <<"1">>)].present
    /\ cache[CacheKey("loc", <<"2">>)].present
    /\ last.op = "sys"
    /\ last.id = <<"1">>
    /\ last.result = PyFalse

---------------------------------------------------------------------------
(* Claims about updateItem (under SpecItem) *)

IsUpdate(obs) == obs.op = "updateItem"

\* The calls of a run that were made for the claim key.
CallsFor(obs, claim) == { j \in 1..Len(obs.calls) : obs.calls[j].claim = claim }

\* The header fields of the summary table, as FieldClaims lists them.
HeaderClaims == { FieldClaims[i] : i \in 1..7 }

CompleteHeader(data) == \A f \in HeaderClaims : f[2] \in DOMAIN data

\* C2: for a Record missing any subset of the header fields Manufacturer,
\* Site, Cores, Memory, Processor, Power Consumption and Operating System,
\* updateItem on an existing target (no API call failing) completes without
\* an unhandled failure and has attempted addClaim for every header field
\* that is present.
C2_PartialRecordCompletes ==
    (IsUpdate(upd) /\ ~upd.faulted /\ upd.target # "Q0")
        => /\ upd.ret.tag # "raise"
           /\ \A f \in HeaderClaims :
                 f[2] \in DOMAIN upd.data => CallsFor(upd, f[1]) # {}

\* The performance statements an item carries.
PerformanceOf(k, item) ==
    IF item \in DOMAIN k.claims
    THEN SelectSeq(k.claims[item], LAMBDA st : st.prop = Properties["performance"])
    ELSE << >>

\* C5: when updateItem has run with a Record against an existing target and
\* runs again with the same Record against the same target, the target
\* carries after the second run the same performance statements as after
\* the first, and no additional ones.
C5_RepeatAddsNoPerformance ==
    [][ (phase = "second" /\ phase' = "done" /\ upd.target = "Q1")
            => PerformanceOf(kb', "Q1") = PerformanceOf(kb, "Q1") ]_vars

\* The tiers by which a ranking entry keys both of its magnitudes.
TiersOf(rankdata) ==
    { t \in {"GFlops", "TFlops", "PFlops"} :
          RmaxKey(t) \in DOMAIN rankdata /\ RpeakKey(t) \in DOMAIN rankdata }

\* The performance calls of a run made for the ranking entry of a list date.
CallsOfEntry(obs, date) ==
    { j \in CallsFor(obs, "performance") : obs.calls[j].data.qualifiers[2][2] = date }

\* C7: for a ranking entry that keys its magnitudes by exactly one tier T,
\* updateItem (complete header, no API call failing) makes exactly two
\* performance calls of kind amount, one with the Rmax and one with the
\* Rpeak magnitude of the entry followed by the unit T, and none with the
\* unit of another tier.
C7_TierUnitInPerformanceClaim ==
    (IsUpdate(upd) /\ ~upd.faulted /\ upd.target # "Q0" /\ CompleteHeader(upd.data))
        => \A i \in 1..Len(upd.data["Rank"]) :
              \A t \in TiersOf(upd.data["Rank"][i]) :
                 LET entry == upd.data["Rank"][i]
                     calls == CallsOfEntry(upd, entry["List"])
                 IN  TiersOf(entry) = {t}
                        => /\ Cardinality(calls) = 2
                           /\ \A j \in calls : upd.calls[j].datatype = "amount"
                           /\ { upd.calls[j].data.value : j \in calls }
                                 = { ConcatWord(entry[RmaxKey(t)], t),
                                     ConcatWord(entry[RpeakKey(t)], t) }

\* The performance call is made with a magnitude of the entry of its date:
\* the Rmax or Rpeak cell of a tier the entry keys both magnitudes by, with
\* the unit of that tier.
FromItsEntry(call, entry) ==
    /\ "List" \in DOMAIN entry
    /\ call.data.qualifiers[2][2] = entry["List"]
    /\ \E t \in TiersOf(entry) :
          call.data.value \in { ConcatWord(entry[RmaxKey(t)], t), ConcatWord(entry[RpeakKey(t)], t) }

NoFullTier(entry) == "List" \in DOMAIN entry /\ TiersOf(entry) = {}

\* C23: for a ranking entry in which no tier has both its Rmax and its
\* Rpeak key, updateItem makes no performance call (the ranking entries of
\* a Record carry different list dates); and every performance call it
\* makes carries magnitudes of the entry of its date, taken from a tier
\* that entry keys both magnitudes by: none is built from the magnitudes of
\* an earlier entry or from half a tier.
C23_NoClaimWithoutFullTier ==
    (IsUpdate(upd) /\ "Rank" \in DOMAIN upd.data)
        => /\ \A i \in 1..Len(upd.data["Rank"]) :
                 NoFullTier(upd.data["Rank"][i])
                    => CallsOfEntry(upd, upd.data["Rank"][i]["List"]) = {}
           /\ \A j \in CallsFor(upd, "performance") :
                 \E i \in 1..Len(upd.data["Rank"]) : FromItsEntry(upd.calls[j], upd.data["Rank"][i])

\* updateItem has run with a Record whose ranking has an entry without a
\* full tier after an entry with one, and has made the performance calls
\* of the earlier entry.
C23_Witness ==
    /\ IsUpdate(upd)
    /\ "Rank" \in DOMAIN upd.data
    /\ \E i \in 2..Len(upd.data["Rank"]) : NoFullTier(upd.data["Rank"][i])
    /\ CallsFor(upd, "performance") # {}

\* The place of a claim key in the order of the addClaim calls: the
\* creation of the item (label) when there is one, instance-type,
\* manufacturer, site, core count, memory size, processor, power, operating
\* system, platform, external identifier, performance.
ClaimOrder ==
    <<"label", "instance_of", "manufacturer", "site", "cores", "memory", "cpu", "power",
      "os", "platform", "top500identifier", "performance">>

PlaceOf(claim) == CHOOSE n \in 1..Len(ClaimOrder) : ClaimOrder[n] = claim

\* The place of a performance call among the performance calls: the number
\* of the ranking entry of its date, Rmax before Rpeak.
EntryOf(data, call) == CHOOSE i \in 1..Len(data["Rank"]) : data["Rank"][i]["List"] = call.data.qualifiers[2][2]

RoleOf(call) == IF call.data.qualifiers[1][2] = Str("rmax") THEN 1 ELSE 2

Before(data, a, b) ==
    \/ PlaceOf(a.claim) < PlaceOf(b.claim)
    \/ /\ a.claim = "performance"
       /\ b.claim = "performance"
       /\ \/ EntryOf(data, a) < EntryOf(data, b)
          \/ EntryOf(data, a) = EntryOf(data, b) /\ RoleOf(a) < RoleOf(b)

\* The last addClaim call of the run is the last one of the fixed order:
\* for the last ranking entry, or for the external identifier when the
\* Record has no ranking entry.
LastCallMade(obs) ==
    /\ obs.calls # << >>
    /\ IF obs.data["Rank"] = << >>
       THEN obs.calls[Len(obs.calls)].claim = "top500identifier"
       ELSE /\ obs.calls[Len(obs.calls)].claim = "performance"
            /\ EntryOf(obs.data, obs.calls[Len(obs.calls)]) = Len(obs.data["Rank"])

\* C24: in every run of updateItem the addClaim calls are made in one
\* fixed order (any call of the run comes before any later one in
\* ClaimOrder, the performance calls entry by entry in the order of the
\* Record, Rmax before Rpeak), and the change log is saved only when the
\* last of them has been made.
C24_FixedClaimOrder ==
    IsUpdate(upd)
        => /\ \A j, n \in 1..Len(upd.calls) :
                 j < n => Before(upd.data, upd.calls[j], upd.calls[n])
           /\ upd.logged > 0 => LastCallMade(upd)

\* A run over a Record with two ranking entries has made every call of the
\* order, four performance calls among them, and has saved the change log.
C24_Witness ==
    /\ IsUpdate(upd)
    /\ upd.logged > 0
    /\ Len(upd.data["Rank"]) = 2
    /\ Cardinality(CallsFor(upd, "performance")) = 4
    /\ \A n \in 2..(Len(ClaimOrder) - 1) : CallsFor(upd, ClaimOrder[n]) # {}

\* The failures of page.save after which updateLog tries again (lines
\* 788-792).
ConflictClass == {"EditConflict", "TimeoutError", "Server504Error"}

LogTried(obs) == IsUpdate(obs) /\ obs.logged > 0

\* C25: updateLog tries at most 3 saves; it tries again only after a
\* failure of the edit-conflict class, stops at the first save that
\* succeeds, returns False after the third failure of that class in a row,
\* and returns False without trying again on any other failure of a save.
C25_ThreeSavesThenFalse ==
    LogTried(upd)
        => /\ upd.logged <= tries
           /\ \A i \in 1..(upd.logged - 1) : upd.saves[i] \in ConflictClass
           /\ upd.saves[upd.logged] \in ConflictClass => upd.logged = tries
           /\ upd.saves[upd.logged] # "ok" => upd.logret = PyFalse

\* The lines of a log text that are not the end-of-list marker.
Entries(text) == SelectSeq(text, LAMBDA line : line # <<EndList>>)

\* C26: after an updateLog call whose save succeeded, the text of the log
\* is the lines of the text before it without the marker, in their order,
\* then the one new entry, then the marker, which occurs nowhere else: one
\* entry is appended, however many saves were tried.
C26_OneEntryBeforeMarker ==
    (LogTried(upd) /\ upd.saves[upd.logged] = "ok")
        => /\ Len(log) = Len(Entries(upd.before)) + 2
           /\ SubSeq(log, 1, Len(log) - 2) = Entries(upd.before)
           /\ log[Len(log) - 1] = LogEntry(upd.item)
           /\ log[Len(log)] = <<EndList>>
           /\ \A i \in 1..(Len(log) - 1) : log[i] # <<EndList>>

\* The save of an updateLog call succeeded at its second try, on a log
\* that held a marker.
C26_Witness ==
    /\ LogTried(upd)
    /\ upd.logged = 2
    /\ upd.saves[upd.logged] = "ok"
    /\ Entries(upd.before) # upd.before

\* The target of the run exists: it was given, or the creation call of the
\* run returned its identifier.
TargetExists(obs) ==
    \/ obs.target # "Q0"
    \/ obs.calls # << >> /\ obs.calls[1].claim = "label" /\ obs.calls[1].ret.tag = "item"

\* C29: once the target exists, updateItem returns True, whatever its
\* addClaim calls and the append to the change log come to.
C29_TrueOnceTargetExists ==
    (IsUpdate(upd) /\ TargetExists(upd)) => upd.ret = PyTrue

\* No addClaim call of the run wrote to the knowledge base.
NothingWritten(obs) ==
    \A j \in 1..Len(obs.calls) : obs.calls[j].ret # PyTrue /\ obs.calls[j].ret.tag # "item"

\* C30: updateItem called with a target identifier that is neither the
\* create-new sentinel nor Q followed by digits returns False, writes
\* nothing to the knowledge base and appends nothing to the change log.
C30_MalformedTargetRejected ==
    (IsUpdate(upd) /\ upd.target \in MalformedItems)
        => /\ upd.ret = PyFalse
           /\ NothingWritten(upd)
           /\ upd.logged = 0

\* Every addClaim call of the run after the creation call was made for the
\* item of the run, and none of them was a creation.
CallsReferTo(obs, item) ==
    \A j \in 2..Len(obs.calls) : obs.calls[j].item = item /\ obs.calls[j].claim # "label"

CreationFailed(obs) ==
    /\ IsUpdate(obs) /\ obs.target = "Q0"
    /\ Len(obs.calls) >= 1
    /\ obs.calls[1].claim = "label" /\ obs.calls[1].ret.tag # "item"

\* C15: when updateItem is called with the create-new sentinel and the
\* entity creation fails, updateItem returns False and attempts no field
\* claim, no performance claim (the creation is its only addClaim call) and
\* no change-log append.
C15_FailedCreationAborts ==
    CreationFailed(upd)
        => /\ upd.ret = PyFalse
           /\ Len(upd.calls) = 1
           /\ upd.logged = 0

---------------------------------------------------------------------------
(* Claims about addClaim (under SpecClaim) *)

\* The last call was made with nonempty False (documented as: don't write
\* a property already set) for a property on an existing target for which
\* the call before it, made the same way, wrote a statement.
SecondOfTwo(obs) ==
    /\ obs.op = "addClaim" /\ obs.prior.op = "addClaim"
    /\ obs.item # "Q0" /\ obs.prior.item = obs.item
    /\ obs.prior.claim = obs.claim
    /\ ~obs.prior.nonempty /\ ~obs.nonempty
    /\ obs.prior.written = 1

StatementsFor(k, item, claim) ==
    SelectSeq(StatementsOf(k, item), LAMBDA st : st.prop = str2prop(claim))

\* C6: of two addClaim calls that are not to write a property already set,
\* for the same property on the same existing target, the first of which
\* wrote its statement, the second writes nothing and returns False (when
\* no API call of it fails), and the target carries exactly one statement
\* for the property.
C6_SecondClaimRejected ==
    SecondOfTwo(upd)
        => /\ upd.written = 0
           /\ upd.ret # PyTrue
           /\ (~upd.faulted => upd.ret = PyFalse)
           /\ Len(StatementsFor(kb, upd.item, upd.claim)) = 1

\* The arguments of the call carry a mapping error: the property key is not
\* in the property table, or, for a value written to an existing item, the
\* statement value or the unit token is not in the entity table, the
\* magnitude is empty or spells no number, or the date is not mm/yyyy.
\* (With the create-new sentinel the data are labels and are not mapped.)
MappingError(obs) ==
    \/ str2prop(obs.claim) = NotMapped
    \/ /\ obs.item # "Q0"
       /\ \/ obs.datatype = "statement" /\ str2statement(stripped(obs.data.value)) = NotMapped
          \/ /\ obs.datatype = "amount"
             /\ \/ Falsy(obs.data.value)
                \/ ~IsNumeral(Spell(Split(obs.data.value)[1]))
                \/ /\ Len(Split(obs.data.value)) > 1
                   /\ str2statement(Str(Split(obs.data.value)[2])) = NotMapped
          \/ /\ obs.datatype = "date"
             /\ \/ Len(obs.data.value) # 1
                \/ ~getDate(Spell(obs.data.value[1])).valid

\* C14: when the arguments of addClaim carry a mapping error, addClaim
\* leaves the knowledge base unchanged (no entity created, no statement and
\* no qualifier written) and, when no API call of it fails, returns False.
C14_MappingErrorWritesNothing ==
    (upd.op = "addClaim" /\ MappingError(upd))
        => /\ upd.kept
           /\ (~upd.faulted => upd.ret = PyFalse)

\* The exception the try blocks of qualifier i of the call end with.
FailureOf(obs, i) ==
    QualifierFailure(str2prop(obs.data.qualifiers[i][1]), obs.data.qualifiers[i][1],
                     QualifierTarget(obs.data.qualifiers[i][1], obs.data.qualifiers[i][2]),
                     obs.api)

\* The call wrote the parent claim of a value with qualifiers.
ParentWritten(obs) == obs.op = "addClaim" /\ obs.data.list /\ obs.written = 1

\* The qualifiers of the call that do not fail, as they are attached.
Attachable(obs) ==
    LET ok == SelectSeq([i \in 1..Len(obs.data.qualifiers) |-> i],
                        LAMBDA i : FailureOf(obs, i) = "ok")
    IN  [j \in 1..Len(ok) |->
            [prop   |-> str2prop(obs.data.qualifiers[ok[j]][1]),
             target |-> QualifierTarget(obs.data.qualifiers[ok[j]][1],
                                        obs.data.qualifiers[ok[j]][2])]]

\* C13: in addClaim, once the parent claim has been written, a qualifier
\* that cannot be resolved, encoded or attached is skipped whatever the kind
\* of its failure: addClaim returns True and every qualifier that does not
\* fail itself is attached to the claim.
C13_QualifierFailureSkipped ==
    (ParentWritten(upd) /\ \E i \in 1..Len(upd.data.qualifiers) : FailureOf(upd, i) # "ok")
        => /\ upd.ret = PyTrue
           /\ upd.attached = Attachable(upd)

\* The call was made with the create-new sentinel as its item.
SentinelCall == upd.op = "addClaim" /\ upd.item = "Q0"

\* C28: addClaim called with the create-new sentinel creates an entity
\* only when the kind is label: with any other kind it returns no entity
\* and leaves the knowledge base as it was.
C28_CreatesOnlyForLabelKind ==
    (SentinelCall /\ upd.datatype # "label")
        => /\ upd.ret.tag # "item"
           /\ upd.kept

\* C28, amended: addClaim called with the create-new sentinel and the
\* labels of the new entity (property key label) does not look at the
\* kind: when the creation call succeeds it creates the entity with these
\* labels and returns its identifier, and when it fails it creates nothing.
C28_SentinelCreatesWhateverKind ==
    (SentinelCall /\ upd.claim = "label")
        => IF FaultAt(upd.api, "create", "") = "ok"
           THEN /\ upd.ret.tag = "item"
                /\ upd.ret.item \in DOMAIN kb.labels
                /\ kb.labels[upd.ret.item] = upd.data
                /\ ~upd.kept
           ELSE /\ upd.ret.tag # "item"
                /\ upd.kept

\* An entity has been created by a call with the sentinel, the labels and
\* the kind string.
C28_Witness ==
    /\ SentinelCall
    /\ upd.claim = "label"
    /\ upd.datatype = "string"
    /\ upd.ret.tag = "item"

\* The first call of the scenario was made for an existing item with a
\* plain value of the kind amount and no API call failing.
PlainAmountCall ==
    /\ upd.op = "addClaim"
    /\ upd.prior.op = "none"
    /\ upd.item = "Q1"
    /\ upd.datatype = "amount"
    /\ ~upd.faulted
    /\ ~upd.data.list
    /\ str2prop(upd.claim) # NotMapped

\* C27: addClaim with the kind amount rejects a magnitude only when it is
\* empty or spells no number: for every magnitude that spells a finite
\* number, 0 and 0.0 among them, the quantity is written.
C27_NumericAmountWritten ==
    (PlainAmountCall /\ Len(upd.data.value) = 1 /\ IsNumeral(Spell(upd.data.value[1])))
        => /\ upd.ret = PyTrue
           /\ upd.written = 1

---------------------------------------------------------------------------
(* Claims about formatDecimal (under SpecDecimal) *)

\* Two finite Decimals are the same number.
Scaled(dec, m) == IF dec.coef = Zero THEN Zero ELSE dec.coef \o Zeroes(dec.exp - m)

Least(m, n) == IF m < n THEN m ELSE n

SameValue(a, b) ==
    /\ a.neg = b.neg
    /\ Scaled(a, Least(a.exp, b.exp)) = Scaled(b, Least(a.exp, b.exp))

\* No trailing fractional zeroes, and no fractional part on an integral value.
Trimmed(dec) == IF dec.exp < 0 THEN dec.coef[Len(dec.coef)] # "0" ELSE dec.exp = 0

\* C19: formatDecimal returns, for every decimal numeral, the same numeric
\* value with trailing fractional zeroes removed and with no fractional part
\* when the value is integral, and returns failure (False) for every string
\* that is not a number.
C19_FormatDecimal ==
    upd.op = "formatDecimal"
        => IF IsNumeral(upd.num)
           THEN /\ upd.result.valid /\ upd.result.special = "no"
                /\ SameValue(ParseDecimal(upd.num), upd.result)
                /\ Trimmed(upd.result)
           ELSE ~upd.result.valid

---------------------------------------------------------------------------
(* Claims about the Batch Controller (under Spec) *)

InRun == run.pc \in {"loop", "save", "write", "raised", "returned"}

LastTried == run.tried[Len(run.tried)]

\* C1: in a run of mass, a failure while processing one identifier (the
\* fetch finds nothing, the extraction fails on a page without its tables,
\* the Record lacks a mapped field, a write inside updateItem fails) never
\* stops the batch: no exception leaves mass, and the attempt is followed
\* by the update of the counter.
C1_FailureNeverStopsBatch ==
    (InRun /\ run.tried # << >>)
        => /\ run.pc # "raised"
           /\ run.outcome \in {"notfound", "updated", "failed"}

\* C3: when updateCounter has completed for identifier n of a partition,
\* the counter of the partition holds n + 1, the next identifier to
\* process, and no run attempts an identifier for which updateCounter had
\* completed before.
C3_CounterHoldsNext ==
    /\ (InRun /\ run.pc = "loop" /\ run.saved)
          => readCounter(counter, run.mul) = [tag |-> "int", val |-> LastTried + 1]
    /\ (InRun /\ run.tried # << >>) => ~run.again

\* C4: a run of mass started after a crash, for a partition whose counter
\* was last written with c, attempts c first and attempts no identifier
\* below c.
C4_RestartFromPersisted ==
    (InRun /\ run.after = "idle" /\ run.floor > 0 /\ run.tried # << >>)
        => /\ run.tried[1] = run.floor
           /\ \A i \in 1..Len(run.tried) : run.tried[i] >= run.floor

\* The entities of the knowledge base that carry the identifier as their
\* TOP500 identifier statement (library.py 657).
EntitiesOf(k, identifier) ==
    { q \in DOMAIN k.claims :
         \E j \in 1..Len(k.claims[q]) :
            /\ k.claims[q][j].prop = str2prop("top500identifier")
            /\ k.claims[q][j].target = ClaimTarget(Numeral(identifier), "string") }

\* C20: over all runs of mass on a partition, the knowledge base holds at
\* most one entity for each identifier: a run over identifiers an earlier
\* run imported creates no second entity for any of them.
C20_RerunAddsNothing ==
    \A i \in BatchIds : Cardinality(EntitiesOf(kb, i)) <= 1

\* C21: over all steps of mass, crashes and restarts, the value written
\* last to the counter file of a partition never decreases.
C21_CounterNeverDecreases ==
    [][\A m \in Partitions : hist'.persisted[m] >= hist.persisted[m]]_vars

\* The start of the window of the partition of the run (library.py 859).
WindowStart == run.mul * fact + 1

InWindowAscending ==
    \A i \in 1..Len(run.tried) :
       /\ run.tried[i] >= WindowStart
       /\ run.tried[i] < WindowStart + fact
       /\ i > 1 => run.tried[i - 1] < run.tried[i]

\* C22: in one run of mass for partition p, every identifier attempted
\* lies in [p*fact+1, p*fact+1+fact), and the identifiers are attempted in
\* strictly ascending order (so each at most once), whatever the counter
\* file of the partition held when the run started.
C22_WindowAscendingOnce ==
    InRun => InWindowAscending

\* What readCounter returned at the start of the run is no integer, is 0,
\* or is not below the window.
ReadInWindow ==
    \/ run.read = PyFalse
    \/ run.read.val = 0
    \/ run.read.val >= WindowStart

\* C22, amended: the same, for a run that found no counter, an unreadable
\* one, or one holding an integer that is 0 or not below p*fact+1.
C22_WindowAscendingOnceFromWindow ==
    (InRun /\ ReadInWindow) => InWindowAscending

\* A run resumed from a counter inside its window has attempted two
\* identifiers.
C22_Witness ==
    /\ InRun
    /\ run.read # PyFalse
    /\ run.read.val > WindowStart
    /\ Len(run.tried) >= 2

---------------------------------------------------------------------------
(* Claims about the entry scripts (under SpecScript and SpecSingle) *)

Exited == upd.op = "script" /\ upd.pc = "exited"

\* The counter file of the partition of the run holds the identifier the
\* run had reached, or the one before it.
ProgressPersisted ==
    \E n \in {run.identifier, run.identifier - 1} :
        readCounter(counter, run.mul) = [tag |-> "int", val |-> n]

\* C16: a process that was interrupted by KeyboardInterrupt in a batch or
\* single-record run, with the site and the cache set up, ends with the
\* status page holding 2 (stopped), unless the save of the page failed,
\* and, in a batch run, with the counter of its partition holding the
\* progress of the run.
C16_InterruptPersistsAndStops ==
    (Exited /\ upd.interrupted /\ upd.importer = Built /\ upd.report # "failed")
        => /\ upd.page = Numeral(2)
           /\ upd.mode = "mass" => ProgressPersisted

\* The constructor could not set up the site or the cache (self.error).
StartupFailed == upd.op = "script" /\ upd.pc # "off" /\ upd.importer.error # "none"

\* C17: a process whose constructor could not set up the site or the cache
\* does no processing: mass makes no request to the source, the knowledge
\* base is as it was, and no counter file is written.
C17_StartupFailureAborts ==
    StartupFailed
        => /\ run.pc # "idle" => (run.net = 0 /\ run.tried = << >>)
           /\ kb = InitialKB
           /\ \A m \in Partitions : counter[m] = NoFile

\* The process ran mass() over its whole window.
WindowCompleted == upd.mode = "mass" /\ upd.done /\ ~upd.interrupted

\* C18: a process, with the site and the cache set up, ends with the code
\* 128 (the code of its SystemExit, written to the status page unless the
\* save of the page failed) exactly when it ran mass() over its whole
\* window: not after a single-record run, and not after an interrupt.
C18_Code128IffWindowCompleted ==
    (Exited /\ upd.importer = Built /\ upd.report # "failed")
        => ((upd.code = 128 /\ upd.page = Numeral(128)) <=> WindowCompleted)

=============================================================================
